---- MODULE Spec2Model ----
(***************************************************************************)
(* Model of the rendering core of CPPGraphicsEngine:                       *)
(*   - TransformComponent   (Engine/Core/Components/transformComponent.h)  *)
(*   - RenderCommand / DrawCommandQueue (Engine/Rendering/Core/            *)
(*     render_command.h)                                                   *)
(*   - OpenGLRenderer       (Engine/Rendering/Core/opengl_renderer.h)      *)
(* Floats are modelled by integers (integer-valued floats), Euler angles   *)
(* by integer numbers of quarter turns, so that sin and cos are exact.     *)
(* Pointers are modelled by object indices, the null pointer by 0.         *)
(***************************************************************************)
EXTENDS Integers, Sequences, FiniteSets, TLC

\* ------------------------------------------------------------------------
\* Bounds of the model
\* ------------------------------------------------------------------------
\* number of TransformComponent objects
NNodes == 3
\* number of transform operations in one behaviour
MaxOps == 4

\* number of Mesh objects
NMeshes == 2
\* largest number of commands held by a queue
MaxQueue == 3
\* number of renderer and mesh operations in one behaviour
MaxRenderOps == 4

\* size of the Framebuffer of the software rasterizer, in pixels
FbWidth == 3
FbHeight == 3
\* number of triangles drawn between two clears
MaxDraws == 3
\* the normals handed to packNormal are the vectors (a, b, c) / n of length
\* one with integers a, b, c and n <= MaxNormalLength
MaxNormalLength == 9

Nodes == 1..NNodes
MeshObjs == 1..NMeshes
\* the null pointer
NullPtr == 0

\* ------------------------------------------------------------------------
\* vec3 and mat4
\* ------------------------------------------------------------------------
vec3_zero == <<0, 0, 0>>
vec3_one == <<1, 1, 1>>

Vec3Add(a, b) == <<a[1] + b[1], a[2] + b[2], a[3] + b[3]>>
Vec3Sub(a, b) == <<a[1] - b[1], a[2] - b[2], a[3] - b[3]>>

\* mat4 m[i][j] is M[i+1][j+1]
mat4_identity == << <<1, 0, 0, 0>>, <<0, 1, 0, 0>>, <<0, 0, 1, 0>>, <<0, 0, 0, 1>> >>

mat4_translation(pos) ==
    [mat4_identity EXCEPT ![1][4] = pos[1], ![2][4] = pos[2], ![3][4] = pos[3]]

mat4_scale(s) ==
    [mat4_identity EXCEPT ![1][1] = s[1], ![2][2] = s[2], ![3][3] = s[3]]

\* cos and sin of an angle given in quarter turns
QCos(k) == <<1, 0, -1, 0>>[(k % 4) + 1]
QSin(k) == <<0, 1, 0, -1>>[(k % 4) + 1]

mat4_rotationX(angle) ==
    [mat4_identity EXCEPT ![2][2] = QCos(angle), ![2][3] = -QSin(angle),
                          ![3][2] = QSin(angle), ![3][3] = QCos(angle)]

mat4_rotationY(angle) ==
    [mat4_identity EXCEPT ![1][1] = QCos(angle), ![1][3] = QSin(angle),
                          ![3][1] = -QSin(angle), ![3][3] = QCos(angle)]

mat4_rotationZ(angle) ==
    [mat4_identity EXCEPT ![1][1] = QCos(angle), ![1][2] = -QSin(angle),
                          ![2][1] = QSin(angle), ![2][2] = QCos(angle)]

MulEntry(a, b, i, j) ==
    a[i][1] * b[1][j] + a[i][2] * b[2][j] + a[i][3] * b[3][j] + a[i][4] * b[4][j]

MulRow(a, b, i) ==
    << MulEntry(a, b, i, 1), MulEntry(a, b, i, 2), MulEntry(a, b, i, 3), MulEntry(a, b, i, 4) >>

mat4_mul(a, b) ==
    << MulRow(a, b, 1), MulRow(a, b, 2), MulRow(a, b, 3), MulRow(a, b, 4) >>

mat4_euler(angles) ==
    mat4_mul(mat4_mul(mat4_rotationZ(angles[3]), mat4_rotationY(angles[2])),
             mat4_rotationX(angles[1]))

\* translation(p) * euler(r) * scale(s), as updateWorldCache composes it
LocalMatrix(p, r, s) ==
    mat4_mul(mat4_mul(mat4_translation(p), mat4_euler(r)), mat4_scale(s))

\* ------------------------------------------------------------------------
\* Input values of the transform operations
\* ------------------------------------------------------------------------
PosVals == {vec3_zero, <<1, 2, 3>>}
RotVals == {vec3_zero, <<0, 0, 1>>}
ScaleVals == {vec3_one, <<2, 1, 1>>}

VARIABLES
    nodes,      \* TransformComponent objects, by index
    lastOp,     \* the transform operation that returned last
    steps,      \* number of transform operations performed
    meshes,     \* Mesh objects, by index
    renderer,   \* the fields of the OpenGLRenderer
    gl,         \* the state of the OpenGL context
    flushLog,   \* what the last flush() did, one entry per command
    queue,      \* a DrawCommandQueue used on its own
    fb,         \* the Framebuffer the software rasterizer draws into
    drawn,      \* the triangles drawn into fb since it was created or cleared
    codec,      \* a normal, its packed form and the normal unpacked from it
    destroyed   \* the TransformComponents whose destructor has run

vars == <<nodes, lastOp, steps, meshes, renderer, gl, flushLog, queue, fb, drawn, codec,
          destroyed>>

\* ------------------------------------------------------------------------
\* TransformComponent
\* ------------------------------------------------------------------------
NewTransform ==
    [ parentTransform |-> NullPtr,
      children |-> <<>>,
      isDirty |-> FALSE,
      worldCacheDirty |-> TRUE,
      localPosition |-> vec3_zero,
      localRotation |-> vec3_zero,
      localScale |-> vec3_one,
      cachedWorldPosition |-> vec3_zero,
      cachedWorldRotation |-> vec3_zero,
      cachedWorldScale |-> vec3_zero,
      cachedWorldMatrix |-> mat4_identity ]

RECURSIVE markDirty(_, _)
RECURSIVE markDirtyChildren(_, _, _)

\* the loop of markDirty over the children of n, from child index i on
markDirtyChildren(ns, n, i) ==
    IF i > Len(ns[n].children) THEN ns
    ELSE LET child == ns[n].children[i]
         IN  IF ~ns[child].isDirty
             THEN markDirtyChildren(markDirty(ns, child), n, i + 1)
             ELSE markDirtyChildren(ns, n, i + 1)

markDirty(ns, n) ==
    markDirtyChildren(
        [ns EXCEPT ![n].isDirty = TRUE, ![n].worldCacheDirty = TRUE], n, 1)

RECURSIVE updateWorldCache(_, _)
\* updateWorldCache that leaves worldCacheDirty set
updateWorldCache_KeepDirty(ns, n) == ns

updateWorldCache(ns, n) ==
    IF ~ns[n].worldCacheDirty THEN ns
    ELSE IF ns[n].parentTransform # NullPtr
    THEN LET p == ns[n].parentTransform
             \* parentTransform->getWorldMatrix() refreshes the parent chain;
             \* the later getWorldPosition/Rotation/Scale calls find it clean
             ns1 == updateWorldCache(ns, p)
             localMat == LocalMatrix(ns[n].localPosition, ns[n].localRotation,
                                     ns[n].localScale)
         IN  [ns1 EXCEPT
                ![n].cachedWorldMatrix = mat4_mul(ns1[p].cachedWorldMatrix, localMat),
                ![n].cachedWorldPosition =
                    Vec3Add(ns1[p].cachedWorldPosition, ns[n].localPosition),
                ![n].cachedWorldRotation =
                    Vec3Add(ns1[p].cachedWorldRotation, ns[n].localRotation),
                ![n].cachedWorldScale =
                    << ns1[p].cachedWorldScale[1] * ns[n].localScale[1],
                       ns1[p].cachedWorldScale[2] * ns[n].localScale[2],
                       ns1[p].cachedWorldScale[3] * ns[n].localScale[3] >>,
                ![n].worldCacheDirty = FALSE]
    ELSE [ns EXCEPT
            ![n].cachedWorldPosition = ns[n].localPosition,
            ![n].cachedWorldRotation = ns[n].localRotation,
            ![n].cachedWorldScale = ns[n].localScale,
            ![n].cachedWorldMatrix = LocalMatrix(ns[n].localPosition,
                                                 ns[n].localRotation,
                                                 ns[n].localScale),
            ![n].worldCacheDirty = FALSE]

\* values returned by the world getters when called in node state ns
getWorldPosition(ns, n) == updateWorldCache(ns, n)[n].cachedWorldPosition
getWorldRotation(ns, n) == updateWorldCache(ns, n)[n].cachedWorldRotation
getWorldScale(ns, n) == updateWorldCache(ns, n)[n].cachedWorldScale
getWorldMatrix(ns, n) == updateWorldCache(ns, n)[n].cachedWorldMatrix

\* std::remove + erase of value x from sequence s
SeqRemove(s, x) == SelectSeq(s, LAMBDA e : e # x)

\* setParent without the early return of line 132
setParent_NoEarlyReturn(ns, n, newParent) ==
    LET old == ns[n].parentTransform
        ns1 == IF old # NullPtr
               THEN [ns EXCEPT ![old].children = SeqRemove(@, n)]
               ELSE ns
        ns2 == [ns1 EXCEPT ![n].parentTransform = newParent]
        ns3 == IF newParent # NullPtr
               THEN [ns2 EXCEPT ![newParent].children = Append(@, n)]
               ELSE ns2
    IN  markDirty(ns3, n)

\* setParent that leaves the node in the child list of its old parent
setParent_KeepInOldList(ns, n, newParent) ==
    IF ns[n].parentTransform = newParent THEN ns
    ELSE markDirty(
            IF newParent # NullPtr
            THEN [ns EXCEPT ![n].parentTransform = newParent,
                            ![newParent].children = Append(@, n)]
            ELSE [ns EXCEPT ![n].parentTransform = newParent],
            n)

setParent(ns, n, newParent) ==
    IF ns[n].parentTransform = newParent THEN ns
    ELSE LET old == ns[n].parentTransform
             ns1 == IF old # NullPtr
                    THEN [ns EXCEPT ![old].children = SeqRemove(@, n)]
                    ELSE ns
             ns2 == [ns1 EXCEPT ![n].parentTransform = newParent]
             ns3 == IF newParent # NullPtr
                    THEN [ns2 EXCEPT ![newParent].children = Append(@, n)]
                    ELSE ns2
         IN  markDirty(ns3, n)

RECURSIVE DetachChildren(_, _)

\* destructor that leaves the children attached
DetachChildren_None(ns, n) == ns

\* ~TransformComponent, lines 120-122: while the child list is not empty, its
\* last element is detached
DetachChildren(ns, n) ==
    IF ns[n].children = <<>> THEN ns
    ELSE DetachChildren(setParent(ns, ns[n].children[Len(ns[n].children)], NullPtr), n)

\* TransformComponent::~TransformComponent
TransformComponent_destructor(ns, n) ==
    DetachChildren(setParent(ns, n, NullPtr), n)

setLocalPosition(ns, n, pos) == markDirty([ns EXCEPT ![n].localPosition = pos], n)
setLocalRotation(ns, n, rot) == markDirty([ns EXCEPT ![n].localRotation = rot], n)
setLocalScale(ns, n, scl) == markDirty([ns EXCEPT ![n].localScale = scl], n)

setWorldPosition(ns, n, pos) ==
    IF ns[n].parentTransform # NullPtr
    THEN LET p == ns[n].parentTransform
             ns1 == updateWorldCache(ns, p)
         IN  markDirty([ns1 EXCEPT ![n].localPosition =
                                      Vec3Sub(pos, ns1[p].cachedWorldPosition)], n)
    ELSE markDirty([ns EXCEPT ![n].localPosition = pos], n)

setWorldRotation(ns, n, rot) ==
    IF ns[n].parentTransform # NullPtr
    THEN LET p == ns[n].parentTransform
             ns1 == updateWorldCache(ns, p)
         IN  markDirty([ns1 EXCEPT ![n].localRotation =
                                      Vec3Sub(rot, ns1[p].cachedWorldRotation)], n)
    ELSE markDirty([ns EXCEPT ![n].localRotation = rot], n)

\* ancestors of n through the parent links (the hierarchy is acyclic)
RECURSIVE Ancestors(_, _)
Ancestors(ns, n) ==
    IF ns[n].parentTransform = NullPtr THEN {}
    ELSE {ns[n].parentTransform} \cup Ancestors(ns, ns[n].parentTransform)

\* ------------------------------------------------------------------------
\* Shader and Material objects of the scene
\* ------------------------------------------------------------------------
\* Shader objects: the program id glCreateProgram gave them and the compiled
\* flag.  Shader 1 is the Blinn-Phong shader initialize() compiles, shader 4
\* is a Shader whose compilation failed (programID stays 0).
ShaderTable ==
    << [programID |-> 1, compiled |-> TRUE],
       [programID |-> 2, compiled |-> TRUE],
       [programID |-> 3, compiled |-> TRUE],
       [programID |-> 0, compiled |-> FALSE],
       [programID |-> 65539, compiled |-> TRUE] >>

Shaders == 1..Len(ShaderTable)
DefaultShader == CHOOSE s \in Shaders : ShaderTable[s].programID = 1
FailedShader == CHOOSE s \in Shaders : ~ShaderTable[s].compiled

Shader_isValid(s) == ShaderTable[s].compiled
Shader_getID(s) == ShaderTable[s].programID

\* Material objects: the shader each one holds (NullPtr: no shader).
\* Material 3 is a clone of material 1 and shares its shader.
MaterialShader == <<2, 3, 2, 4, NullPtr, 5>>

Materials == 1..Len(MaterialShader)
Material_getShader(m) == MaterialShader[m]

\* material and its shader are usable by flush()
MaterialUsable(m) ==
    /\ m # NullPtr
    /\ Material_getShader(m) # NullPtr
    /\ Shader_isValid(Material_getShader(m))

\* ------------------------------------------------------------------------
\* Mesh
\* ------------------------------------------------------------------------
BufferUsage == {"Static", "Dynamic", "Streaming"}

\* vertex and triangle data a mesh can hold: the vertex data is a token,
\* the triangle list is given by its length
GeomVals == {1, 2}

\* Mesh::Mesh: the k-th mesh of the process gets id ++nextMeshID = k
NewMesh(k) ==
    [ meshID |-> k,
      isDirty |-> TRUE,
      usage |-> "Static",
      vertices |-> 1,
      triangles |-> 1 ]

Mesh_clearDirty(ms, o) == [ms EXCEPT ![o].isDirty = FALSE]
Mesh_markDirty(ms, o) == [ms EXCEPT ![o].isDirty = TRUE]

\* Mesh::setUsage: a new hint is stored and the mesh marked dirty
Mesh_setUsage(ms, o, newUsage) ==
    IF ms[o].usage # newUsage
    THEN [ms EXCEPT ![o].usage = newUsage, ![o].isDirty = TRUE]
    ELSE ms

\* ------------------------------------------------------------------------
\* 64-bit unsigned integers, as the set of the positions of their 1 bits
\* ------------------------------------------------------------------------
RECURSIVE Exp2(_)
Exp2(k) == IF k = 0 THEN 1 ELSE 2 * Exp2(k - 1)

\* positions of the 1 bits of n * 2^i, for n >= 0
RECURSIVE BitsFrom(_, _)
BitsFrom(n, i) ==
    IF n = 0 THEN {}
    ELSE (IF n % 2 = 1 THEN {i} ELSE {}) \cup BitsFrom(n \div 2, i + 1)

\* positions of the 1 bits of a non-negative integer
BitsOf(n) == BitsFrom(n, 0)

U64Or(a, b) == a \cup b
U64And(a, b) == a \cap b
U64Shl(a, k) == {i + k : i \in a} \cap (0..63)
Mask16 == 0..15

SetMax(S) == CHOOSE x \in S : \A y \in S : y <= x

\* a < b as unsigned integers
U64Less(a, b) ==
    /\ a # b
    /\ SetMax((a \ b) \cup (b \ a)) \in b

\* largest e with 2^e <= a, for a >= 1
RECURSIVE FloorLog2(_)
FloorLog2(a) == IF a < 2 THEN 0 ELSE 1 + FloorLog2(a \div 2)

\* reinterpret_cast of a float to its 32-bit pattern (IEEE 754 single), for
\* the integer-valued floats of magnitude below 2^23
FloatBits(d) ==
    IF d = 0 THEN {}
    ELSE LET a == IF d < 0 THEN -d ELSE d
             e == FloorLog2(a)
             mantissa == (a - Exp2(e)) * Exp2(23 - e)
         IN  BitsOf(mantissa)
               \cup {i + 23 : i \in BitsOf(e + 127)}
               \cup (IF d < 0 THEN {31} ELSE {})

\* ------------------------------------------------------------------------
\* RenderCommand and DrawCommandQueue
\* ------------------------------------------------------------------------
\* sort key without the 16-bit masks
generateSortKey_NoMask(ms, mesh, mat, depth) ==
    LET matKey == IF mat # NullPtr /\ Material_getShader(mat) # NullPtr
                  THEN U64Shl(BitsOf(Shader_getID(Material_getShader(mat))), 48)
                  ELSE {}
        meshKey == IF mesh # NullPtr
                   THEN U64Shl(BitsOf(ms[mesh].meshID), 32)
                   ELSE {}
    IN  U64Or(U64Or(matKey, meshKey), FloatBits(depth))

generateSortKey(ms, mesh, mat, depth) ==
    LET matKey == IF mat # NullPtr /\ Material_getShader(mat) # NullPtr
                  THEN U64Shl(U64And(BitsOf(Shader_getID(Material_getShader(mat))),
                                     Mask16), 48)
                  ELSE {}
        meshKey == IF mesh # NullPtr
                   THEN U64Shl(U64And(BitsOf(ms[mesh].meshID), Mask16), 32)
                   ELSE {}
    IN  U64Or(U64Or(matKey, meshKey), FloatBits(depth))

\* the command submit(mesh, mat, model, depth) builds; depth is kept next to
\* the key it went into, node is the transform the matrix was read from
NewCommand(ms, mesh, mat, model, depth, node) ==
    [ mesh |-> mesh,
      material |-> mat,
      modelMatrix |-> model,
      sortKey |-> generateSortKey(ms, mesh, mat, depth),
      depth |-> depth,
      node |-> node ]

NewQueue == [commands |-> <<>>, needsSort |-> FALSE]

Queue_submit_KeepFlag(q, cmd) ==
    [commands |-> Append(q.commands, cmd), needsSort |-> q.needsSort]

Queue_submit(q, cmd) ==
    [commands |-> Append(q.commands, cmd), needsSort |-> TRUE]

SortedByKey(cmds) ==
    \A i \in 1..(Len(cmds) - 1) : ~U64Less(cmds[i + 1].sortKey, cmds[i].sortKey)

\* the orders std::sort can leave the commands in: every permutation that is
\* ascending by sortKey (std::sort is not stable)
SortOutcomes(cmds) ==
    LET n == Len(cmds)
        perms == {p \in [1..n -> 1..n] : \A i, j \in 1..n : i # j => p[i] # p[j]}
        arranged == {[i \in 1..n |-> cmds[p[i]]] : p \in perms}
    IN  {c \in arranged : SortedByKey(c)}

\* sort(), sorted being the order std::sort produces
Queue_sort(q, sorted) ==
    IF q.needsSort
    THEN [commands |-> sorted, needsSort |-> FALSE]
    ELSE q

Queue_clear(q) == [commands |-> <<>>, needsSort |-> FALSE]
Queue_empty(q) == q.commands = <<>>
Queue_size(q) == Len(q.commands)

\* ------------------------------------------------------------------------
\* OpenGL context
\* ------------------------------------------------------------------------
\* program: the program in use; vao: the bound vertex array; arrayBuffer: the
\* GL_ARRAY_BUFFER binding; vaos: the vertex array names in use; vaoEbo: the
\* GL_ELEMENT_ARRAY_BUFFER binding of each vertex array (0 is the default
\* one); buffers: the data store of each buffer name in use
NewGL ==
    [ program |-> 0,
      vao |-> 0,
      arrayBuffer |-> 0,
      vaos |-> {},
      vaoEbo |-> (0 :> 0),
      buffers |-> << >> ]

\* glGen*: an unused name, the smallest one
FreshName(used) ==
    CHOOSE n \in 1..(Cardinality(used) + 1) :
        n \notin used /\ \A k \in 1..(n - 1) : k \in used

\* Shader::use
Shader_use(g, s) ==
    IF ShaderTable[s].compiled
    THEN [g EXCEPT !.program = ShaderTable[s].programID]
    ELSE g

\* ------------------------------------------------------------------------
\* OpenGLRenderer
\* ------------------------------------------------------------------------
\* MeshBuffer::MeshBuffer
NewMeshBuffer ==
    [VAO |-> 0, VBO |-> 0, EBO |-> 0, indexCount |-> 0, meshID |-> 0, usage |-> "Static"]

\* RenderState::RenderState (the enable flags are not modelled)
NewRenderState == [boundVAO |-> 0, boundShader |-> 0, boundMaterial |-> NullPtr]

\* OpenGLRenderer::OpenGLRenderer; meshBuffers maps mesh ids to MeshBuffers
NewRenderer ==
    [ activeShader |-> NullPtr,
      meshBuffers |-> << >>,
      initialized |-> FALSE,
      renderQueue |-> NewQueue,
      currentState |-> NewRenderState ]

\* the vertex data and the index data uploadMesh/updateMeshIfDirty build
PackedVertices(mesh) == <<"packed", mesh.vertices>>
IndexData(mesh) == <<"indices", 3 * mesh.triangles>>

\* uploadMesh: result is the GL state, the filled MeshBuffer and the numbers
\* of glGen* and glBufferData calls issued
uploadMesh(g, mesh) ==
    LET vao == FreshName(g.vaos)
        vbo == FreshName(DOMAIN g.buffers)
        ebo == FreshName((DOMAIN g.buffers) \cup {vbo})
    IN  [ gens |-> 3, uploads |-> 2,
          buffer |-> [ VAO |-> vao, VBO |-> vbo, EBO |-> ebo,
                       indexCount |-> 3 * mesh.triangles,
                       meshID |-> mesh.meshID,
                       usage |-> mesh.usage ],
          gl |-> [ g EXCEPT
                     !.vaos = @ \cup {vao},
                     !.arrayBuffer = vbo,
                     !.buffers = @ @@ (vbo :> [data |-> PackedVertices(mesh),
                                               usage |-> mesh.usage])
                                   @@ (ebo :> [data |-> IndexData(mesh),
                                               usage |-> mesh.usage]),
                     !.vaoEbo = (vao :> ebo) @@ @,
                     \* glBindVertexArray(0) at the end, currentState untouched
                     !.vao = 0 ] ]

\* updateMeshIfDirty that leaves the index count of the first upload
updateMeshIfDirty_StaleCount(g, mesh, buffer) ==
    IF ~mesh.isDirty THEN [gens |-> 0, uploads |-> 0, buffer |-> buffer, gl |-> g]
    ELSE [ gens |-> 0, uploads |-> 2,
           buffer |-> buffer,
           gl |-> [ g EXCEPT
                      !.buffers = [@ EXCEPT
                          ![buffer.VBO] = [data |-> PackedVertices(mesh),
                                           usage |-> buffer.usage],
                          ![buffer.EBO] = [data |-> IndexData(mesh),
                                           usage |-> buffer.usage]],
                      !.arrayBuffer = 0,
                      !.vaoEbo = [@ EXCEPT ![g.vao] = 0] ] ]

\* updateMeshIfDirty: result is the GL state, the MeshBuffer and the numbers
\* of glGen* and glBufferData calls issued
updateMeshIfDirty(g, mesh, buffer) ==
    IF ~mesh.isDirty THEN [gens |-> 0, uploads |-> 0, buffer |-> buffer, gl |-> g]
    ELSE [ gens |-> 0, uploads |-> 2,
           buffer |-> [buffer EXCEPT !.indexCount = 3 * mesh.triangles],
           gl |-> [ g EXCEPT
                      !.buffers = [@ EXCEPT
                          ![buffer.VBO] = [data |-> PackedVertices(mesh),
                                           usage |-> buffer.usage],
                          ![buffer.EBO] = [data |-> IndexData(mesh),
                                           usage |-> buffer.usage]],
                      \* glBindBuffer(GL_ARRAY_BUFFER, 0)
                      !.arrayBuffer = 0,
                      \* glBindBuffer(GL_ELEMENT_ARRAY_BUFFER, 0) changes the
                      \* vertex array that is bound at that time
                      !.vaoEbo = [@ EXCEPT ![g.vao] = 0] ] ]

\* bindVAO: st has the fields gl and cs (currentState)
bindVAO(st, vao) ==
    IF st.cs.boundVAO # vao
    THEN [st EXCEPT !.gl.vao = vao, !.cs.boundVAO = vao]
    ELSE st

\* useShader
useShader(st, shaderID) ==
    IF st.cs.boundShader # shaderID
    THEN [st EXCEPT !.gl.program = shaderID, !.cs.boundShader = shaderID]
    ELSE st

\* a command that refers to the transform instead of holding the matrix
CommandModelMatrix_ByReference(cmd, ns) ==
    IF cmd.node # NullPtr THEN getWorldMatrix(ns, cmd.node) ELSE cmd.modelMatrix

\* the matrix flush() hands to setMat4("model", ...) for a command
CommandModelMatrix(cmd, ns) == cmd.modelMatrix

\* flush(), lines 487-503: the buffer up.buffer becomes the
\* cache entry of the mesh of cmd and the mesh is marked clean.  up is the
\* result of uploadMesh or updateMeshIfDirty
StoreMeshBuffer(st, cmd, up) ==
    [st EXCEPT !.gl = up.gl,
               !.mb = (st.ms[cmd.mesh].meshID :> up.buffer) @@ @,
               !.ms = Mesh_clearDirty(@, cmd.mesh),
               !.gens = @ + up.gens,
               !.uploads = @ + up.uploads]

\* buffer lookup that uploads on every hit, dirty or not
ResolveMeshBuffer_UploadOnHit(st, cmd) ==
    IF st.ms[cmd.mesh].meshID \notin DOMAIN st.mb
    THEN StoreMeshBuffer(st, cmd, uploadMesh(st.gl, st.ms[cmd.mesh]))
    ELSE StoreMeshBuffer(st, cmd,
            updateMeshIfDirty(st.gl, [st.ms[cmd.mesh] EXCEPT !.isDirty = TRUE],
                              st.mb[st.ms[cmd.mesh].meshID]))

\* buffer lookup that creates new buffers for a dirty mesh
ResolveMeshBuffer_Reallocate(st, cmd) ==
    IF st.ms[cmd.mesh].meshID \notin DOMAIN st.mb \/ st.ms[cmd.mesh].isDirty
    THEN StoreMeshBuffer(st, cmd, uploadMesh(st.gl, st.ms[cmd.mesh]))
    ELSE st

\* flush(), lines 485-505: the mesh buffer of the command, created or
\* refreshed.  st: [mb, ms, gl, cs, lastMaterial, gens, uploads, log], gens
\* and uploads counting the glGen* and glBufferData calls of this flush
ResolveMeshBuffer(st, cmd) ==
    IF st.ms[cmd.mesh].meshID \notin DOMAIN st.mb
    THEN StoreMeshBuffer(st, cmd, uploadMesh(st.gl, st.ms[cmd.mesh]))
    ELSE IF st.ms[cmd.mesh].isDirty
    THEN StoreMeshBuffer(st, cmd,
            updateMeshIfDirty(st.gl, st.ms[cmd.mesh],
                              st.mb[st.ms[cmd.mesh].meshID]))
    ELSE st

\* the default-shader fallback of flush(): useShader and activeShader->use()
\* when the default shader is valid
BindActiveShader(st, activeShader) ==
    [useShader(st, Shader_getID(activeShader))
        EXCEPT !.gl = Shader_use(@, activeShader)]

\* the fallback branches of flush() (lines 519-531 and 533-546): the default
\* shader is bound and the material remembered, or the command is skipped.
\* Result: st, the shader to use, skip (continue was taken), applied
\* (applyToShader completed)
UseDefaultShader(st, cmd, activeShader) ==
    IF activeShader # NullPtr /\ Shader_isValid(activeShader)
    THEN [ st |-> [BindActiveShader(st, activeShader)
                      EXCEPT !.lastMaterial = cmd.material],
           shaderToUse |-> activeShader, skip |-> FALSE, applied |-> FALSE ]
    ELSE [ st |-> st, shaderToUse |-> activeShader,
           skip |-> TRUE, applied |-> FALSE ]

\* useShader followed by Material::applyToShader, which starts with
\* shader->use()
BindMaterialShader(st, sh) ==
    [useShader(st, Shader_getID(sh)) EXCEPT !.gl = Shader_use(@, sh)]

\* flush(), lines 507-578: the shader of the command.  throws: applyToShader
\* throws for this command
ResolveShader(st, cmd, activeShader, throws) ==
    IF cmd.material # st.lastMaterial
    THEN IF MaterialUsable(cmd.material)
         THEN IF throws
              THEN UseDefaultShader(
                      BindMaterialShader(st, Material_getShader(cmd.material)),
                      cmd, activeShader)
              ELSE [ st |-> [BindMaterialShader(st, Material_getShader(cmd.material))
                                EXCEPT !.lastMaterial = cmd.material],
                     shaderToUse |-> Material_getShader(cmd.material),
                     skip |-> FALSE, applied |-> TRUE ]
         ELSE UseDefaultShader(st, cmd, activeShader)
    ELSE \* reuse last shader: nothing is bound
         [ st |-> st,
           shaderToUse |-> IF cmd.material # NullPtr
                              /\ Material_getShader(cmd.material) # NullPtr
                           THEN Material_getShader(cmd.material)
                           ELSE activeShader,
           skip |-> FALSE, applied |-> FALSE ]

\* entry of the flush log for a command that is not drawn
NoDraw ==
    [ draws |-> 0, program |-> 0, vao |-> 0, ebo |-> 0, indexCount |-> 0,
      model |-> mat4_identity ]

\* flush(), lines 580-582: the command is drawn when a valid shader was
\* found
ShaderFound(rs) ==
    /\ ~rs.skip
    /\ rs.shaderToUse # NullPtr
    /\ Shader_isValid(rs.shaderToUse)

\* the glDrawElements call of a command, s2 being the state at the call
DrawCall(s2, buffer, cmd, ns) ==
    [ draws |-> 1,
      program |-> s2.gl.program,
      vao |-> s2.gl.vao,
      ebo |-> s2.gl.vaoEbo[s2.gl.vao],
      indexCount |-> buffer.indexCount,
      model |-> CommandModelMatrix(cmd, ns) ]

\* the log entry of a command: the command, the state of the cache and of
\* the mesh around the buffer lookup (st before, s1 after), the outcome rs
\* of the shader selection and the draw call
LogEntry(st, s1, rs, draw, cmd, activeShader, throws) ==
    [ cmd |-> cmd, activeShader |-> activeShader,
      hit |-> st.ms[cmd.mesh].meshID \in DOMAIN st.mb,
      wasDirty |-> st.ms[cmd.mesh].isDirty,
      before |-> IF st.ms[cmd.mesh].meshID \in DOMAIN st.mb
                 THEN st.mb[st.ms[cmd.mesh].meshID] ELSE NewMeshBuffer,
      after |-> s1.mb[st.ms[cmd.mesh].meshID],
      idsBefore |-> DOMAIN st.mb, idsAfter |-> DOMAIN s1.mb,
      meshAfter |-> s1.ms[cmd.mesh],
      vboData |-> s1.gl.buffers[s1.mb[st.ms[cmd.mesh].meshID].VBO].data,
      eboData |-> s1.gl.buffers[s1.mb[st.ms[cmd.mesh].meshID].EBO].data,
      rebound |-> cmd.material # st.lastMaterial,
      applied |-> rs.applied,
      threw |-> cmd.material # st.lastMaterial /\ MaterialUsable(cmd.material)
                    /\ throws,
      gens |-> s1.gens - st.gens,
      uploads |-> s1.uploads - st.uploads,
      draw |-> draw ]

\* flush(), lines 584-589: bindVAO and glDrawElements
DrawWith(st, s1, rs, s2, cmd, activeShader, throws, ns) ==
    [s2 EXCEPT !.log = Append(@,
        LogEntry(st, s1, rs,
                 DrawCall(s2, s1.mb[st.ms[cmd.mesh].meshID], cmd, ns),
                 cmd, activeShader, throws))]

\* flush(), lines 580-591: the command is skipped or drawn
DrawCommand(st, s1, rs, cmd, activeShader, throws, ns) ==
    IF ShaderFound(rs)
    THEN DrawWith(st, s1, rs, bindVAO(rs.st, s1.mb[st.ms[cmd.mesh].meshID].VAO),
                  cmd, activeShader, throws, ns)
    ELSE [rs.st EXCEPT !.log = Append(@,
            LogEntry(st, s1, rs, NoDraw, cmd, activeShader, throws))]

\* flush(), lines 507-591, s1 being the state after the buffer lookup
ShadeCommand(st, s1, cmd, activeShader, throws, ns) ==
    DrawCommand(st, s1, ResolveShader(s1, cmd, activeShader, throws),
                cmd, activeShader, throws, ns)

\* one iteration of the loop of flush() (lines 480-592)
ProcessCommand(st, cmd, activeShader, throws, ns) ==
    IF cmd.mesh = NullPtr
    THEN [st EXCEPT !.log = Append(@,
            [ cmd |-> cmd, activeShader |-> activeShader,
              hit |-> FALSE, wasDirty |-> FALSE,
              before |-> NewMeshBuffer, after |-> NewMeshBuffer,
              idsBefore |-> DOMAIN st.mb, idsAfter |-> DOMAIN st.mb,
              meshAfter |-> NewMesh(0),
              vboData |-> <<>>, eboData |-> <<>>,
              rebound |-> FALSE, applied |-> FALSE, threw |-> FALSE,
              gens |-> 0, uploads |-> 0, draw |-> NoDraw ])]
    ELSE ShadeCommand(st, ResolveMeshBuffer(st, cmd), cmd, activeShader, throws, ns)

RECURSIVE ProcessCommands(_, _, _, _, _, _)
ProcessCommands(st, cmds, i, activeShader, thr, ns) ==
    IF i > Len(cmds) THEN st
    ELSE ProcessCommands(ProcessCommand(st, cmds[i], activeShader, i \in thr, ns),
                         cmds, i + 1, activeShader, thr, ns)

\* the state flush() starts its loop in
FlushStart(w) ==
    [ mb |-> w.renderer.meshBuffers,
      ms |-> w.meshes,
      gl |-> w.gl,
      cs |-> w.renderer.currentState,
      lastMaterial |-> NullPtr,
      gens |-> 0,
      uploads |-> 0,
      log |-> <<>> ]

\* flush(), lines 594-598: the queue is cleared; st is the state after the
\* final bindVAO(0)
FlushEnd(w, st) ==
    [ renderer |-> [w.renderer EXCEPT
                      !.meshBuffers = st.mb,
                      !.currentState = st.cs,
                      !.renderQueue = Queue_clear(@)],
      gl |-> st.gl,
      meshes |-> st.ms,
      log |-> st.log ]

\* flush().  w: [renderer, gl, meshes, log]; sorted: the order std::sort
\* leaves the commands in; thr: the positions of the sorted queue at which
\* Material::applyToShader throws; ns: the transform nodes
flush(w, sorted, thr, ns) ==
    IF ~w.renderer.initialized \/ Queue_empty(w.renderer.renderQueue)
    THEN w
    ELSE FlushEnd(w,
            bindVAO(ProcessCommands(FlushStart(w),
                        Queue_sort(w.renderer.renderQueue, sorted).commands, 1,
                        w.renderer.activeShader, thr, ns),
                    0))

\* beginFrame: the camera and light uploads are not modelled
beginFrame(w) ==
    [w EXCEPT !.renderer.renderQueue = Queue_clear(@)]

\* submit: the depth is read from m[3][2] of the model matrix
submit(w, mesh, modelMatrix, material, node) ==
    [w EXCEPT !.renderer.renderQueue =
        Queue_submit(@, NewCommand(w.meshes, mesh, material, modelMatrix,
                                   modelMatrix[4][3], node))]

\* initialize(): ok tells whether the default shader compiles
initialize(w, ok) ==
    IF w.renderer.initialized THEN w
    ELSE IF ~ok
    THEN [w EXCEPT !.renderer.activeShader = FailedShader]
    ELSE [w EXCEPT !.renderer.activeShader = DefaultShader,
                   !.renderer.initialized = TRUE,
                   !.gl = Shader_use(@, DefaultShader)]

\* setShader
setShader(w, shader) ==
    IF shader # NullPtr /\ Shader_isValid(shader)
    THEN [w EXCEPT !.renderer.activeShader = shader,
                   !.gl = Shader_use(@, shader)]
    ELSE w

\* restriction of function f to the set S
Restrict(f, S) == [x \in S |-> f[x]]

\* cleanup: deletes the vertex arrays and buffers of all MeshBuffers
cleanup(w) ==
    IF ~w.renderer.initialized THEN w
    ELSE LET mb == w.renderer.meshBuffers
             delVaos == {mb[id].VAO : id \in DOMAIN mb}
             delBufs == {mb[id].VBO : id \in DOMAIN mb}
                          \cup {mb[id].EBO : id \in DOMAIN mb}
             g == w.gl
         IN  [w EXCEPT
                !.renderer.meshBuffers = << >>,
                !.renderer.activeShader = NullPtr,
                !.renderer.initialized = FALSE,
                !.gl = [ g EXCEPT
                    !.vao = IF @ \in delVaos THEN 0 ELSE @,
                    !.arrayBuffer = IF @ \in delBufs THEN 0 ELSE @,
                    !.vaos = @ \ delVaos,
                    !.vaoEbo = [v \in (DOMAIN g.vaoEbo) \ delVaos |->
                                  IF g.vaoEbo[v] \in delBufs THEN 0 ELSE g.vaoEbo[v]],
                    !.buffers = Restrict(@, (DOMAIN @) \ delBufs) ] ]

\* ------------------------------------------------------------------------
\* Framebuffer and software Rasterizer
\* ------------------------------------------------------------------------
\* Depths are rational numbers <<n, d>> with d > 0, in lowest terms.  Screen
\* coordinates are kept doubled (x2 = 2 * x), so that vertices can lie on
\* half pixels and the pixel centre x + 0.5 is the integer 2 * x + 1.
\* Colours are names; a triangle has one colour at its three vertices and
\* the scene has no lights, so that calculateLighting returns that colour.
Abs(x) == IF x < 0 THEN -x ELSE x

RECURSIVE GCD(_, _)
GCD(a, b) == IF b = 0 THEN a ELSE GCD(b, a % b)

Sign(x) == IF x < 0 THEN -1 ELSE 1

Rat(n, d) ==
    << (Sign(d) * n) \div GCD(Abs(n), Abs(d)), Abs(d) \div GCD(Abs(n), Abs(d)) >>

RatLess(a, b) == a[1] * b[2] < b[1] * a[2]
RatAdd(a, b) == Rat(a[1] * b[2] + b[1] * a[2], a[2] * b[2])
RatMul(a, b) == Rat(a[1] * b[1], a[2] * b[2])

\* depth 1.0f, the far plane
FarDepth == <<1, 1>>

\* Framebuffer::Framebuffer; pixel (x, y) is element y * width + x of the
\* buffers (element 1 of a sequence being element 0 of a vector)
NewFramebuffer(w, h) ==
    [ width |-> w, height |-> h,
      colorBuffer |-> [i \in 1..(w * h) |-> "black"],
      depthBuffer |-> [i \in 1..(w * h) |-> FarDepth] ]

Framebuffer_clear(f) ==
    [f EXCEPT !.colorBuffer = [i \in DOMAIN @ |-> "clear"],
              !.depthBuffer = [i \in DOMAIN @ |-> FarDepth]]

Framebuffer_inside(f, x, y) == x >= 0 /\ x < f.width /\ y >= 0 /\ y < f.height
Framebuffer_index(f, x, y) == y * f.width + x + 1

\* Framebuffer::setPixel: a pixel outside the buffer is left out
Framebuffer_setPixel(f, x, y, col) ==
    IF Framebuffer_inside(f, x, y)
    THEN [f EXCEPT !.colorBuffer[Framebuffer_index(f, x, y)] = col]
    ELSE f

Framebuffer_setPixelWithDepth(f, x, y, depth, col) ==
    IF Framebuffer_inside(f, x, y)
       /\ RatLess(depth, f.depthBuffer[Framebuffer_index(f, x, y)])
    THEN [f EXCEPT !.depthBuffer[Framebuffer_index(f, x, y)] = depth,
                   !.colorBuffer[Framebuffer_index(f, x, y)] = col]
    ELSE f

Framebuffer_getPixel(f, x, y) ==
    IF Framebuffer_inside(f, x, y)
    THEN f.colorBuffer[Framebuffer_index(f, x, y)]
    ELSE "black"

Framebuffer_getDepth(f, x, y) ==
    IF Framebuffer_inside(f, x, y)
    THEN f.depthBuffer[Framebuffer_index(f, x, y)]
    ELSE FarDepth

\* (int) v for the float v = n2 / 2: truncation towards zero
TruncHalf(n2) == IF n2 >= 0 THEN n2 \div 2 ELSE -((-n2) \div 2)

Min2(a, b) == IF a < b THEN a ELSE b
Max2(a, b) == IF a > b THEN a ELSE b

vec3_cross(a, b) ==
    << a[2] * b[3] - a[3] * b[2],
       a[3] * b[1] - a[1] * b[3],
       a[1] * b[2] - a[2] * b[1] >>

\* barycentric that gives up only when u.z is zero
BarycentricOf_ZeroOnly(u) ==
    IF u[3] = 0
    THEN [n |-> <<-1, 1, 1>>, d |-> 1]
    ELSE [n |-> <<u[3] - (u[1] + u[2]), u[2], u[1]>>, d |-> u[3]]

\* the result of barycentric for the cross product u (of doubled
\* coordinates, so four times the one of the code): the three coordinates
\* are n[1] / d, n[2] / d, n[3] / d
BarycentricOf(u) ==
    IF Abs(u[3]) < 4
    THEN [n |-> <<-1, 1, 1>>, d |-> 1]
    ELSE [n |-> <<u[3] - (u[1] + u[2]), u[2], u[1]>>, d |-> u[3]]

\* Rasterizer::barycentric; p, a, b, c are <<x2, y2, z>>
barycentric(p, a, b, c) ==
    BarycentricOf(vec3_cross(<<c[1] - a[1], b[1] - a[1], a[1] - p[1]>>,
                             <<c[2] - a[2], b[2] - a[2], a[2] - p[2]>>))

\* drawFilledTriangle, line 230: the pixel is kept when no barycentric
\* coordinate is negative.  Variant that keeps every pixel of the box
Covers_WholeBox(bc) == TRUE

Covers(bc) ==
    /\ bc.n[1] * bc.d >= 0
    /\ bc.n[2] * bc.d >= 0
    /\ bc.n[3] * bc.d >= 0

\* drawFilledTriangle, line 233: the interpolated depth
InterpolateDepth(bc, tri) ==
    RatAdd(RatAdd(RatMul(Rat(bc.n[1], bc.d), tri.v[1][3]),
                  RatMul(Rat(bc.n[2], bc.d), tri.v[2][3])),
           RatMul(Rat(bc.n[3], bc.d), tri.v[3][3]))

\* fragment that is written without any depth test
DepthTested_Always(f, tri, x, y, depth) ==
    [f EXCEPT !.depthBuffer[Framebuffer_index(f, x, y)] = depth,
              !.colorBuffer[Framebuffer_index(f, x, y)] = tri.color]

\* fragment that also replaces a pixel of equal depth
DepthTested_OrEqual(f, tri, x, y, depth) ==
    IF RatLess(Framebuffer_getDepth(f, x, y), depth)
    THEN f
    ELSE [f EXCEPT !.depthBuffer[Framebuffer_index(f, x, y)] = depth,
                   !.colorBuffer[Framebuffer_index(f, x, y)] = tri.color]

\* drawFilledTriangle, lines 236-246: depth test, colour, setPixelWithDepth
DepthTested(f, tri, x, y, depth) ==
    IF ~RatLess(depth, Framebuffer_getDepth(f, x, y))
    THEN f
    ELSE Framebuffer_setPixelWithDepth(f, x, y, depth, tri.color)

\* drawFilledTriangle, lines 230-246, bc being the barycentric coordinates
\* of the pixel centre
ShadeFragment(f, tri, x, y, bc) ==
    IF ~Covers(bc) THEN f
    ELSE DepthTested(f, tri, x, y, InterpolateDepth(bc, tri))

\* drawFilledTriangle, lines 227-246: the body of the loops for pixel (x, y)
ShadePixel(f, tri, x, y) ==
    ShadeFragment(f, tri, x, y,
        barycentric(<<2 * x + 1, 2 * y + 1, 0>>, tri.v[1], tri.v[2], tri.v[3]))

\* drawFilledTriangle, lines 217-220: the bounding box
BoundingBox(f, tri) ==
    [ minX |-> Max2(0, TruncHalf(Min2(tri.v[1][1], Min2(tri.v[2][1], tri.v[3][1])))),
      maxX |-> Min2(f.width - 1,
                    TruncHalf(Max2(tri.v[1][1], Max2(tri.v[2][1], tri.v[3][1])))),
      minY |-> Max2(0, TruncHalf(Min2(tri.v[1][2], Min2(tri.v[2][2], tri.v[3][2])))),
      maxY |-> Min2(f.height - 1,
                    TruncHalf(Max2(tri.v[1][2], Max2(tri.v[2][2], tri.v[3][2])))) ]

\* the loops of drawFilledTriangle from the k-th pixel of the box on, rows
\* first; g is the framebuffer after pixel k
RECURSIVE RasterizeFrom(_, _, _, _)
RasterizeFrom(f, tri, box, k) ==
    IF box.maxX < box.minX \/ box.maxY < box.minY
       \/ k >= (box.maxX - box.minX + 1) * (box.maxY - box.minY + 1)
    THEN f
    ELSE CHOOSE r \in
            { RasterizeFrom(g, tri, box, k + 1) :
                g \in { ShadePixel(f, tri,
                                   box.minX + (k % (box.maxX - box.minX + 1)),
                                   box.minY + (k \div (box.maxX - box.minX + 1))) } } :
            TRUE

\* Rasterizer::drawFilledTriangle
drawFilledTriangle(f, tri) == RasterizeFrom(f, tri, BoundingBox(f, tri), 0)

\* the triangles handed to drawFilledTriangle: vertices <<x2, y2, z>> and
\* the colour.  red and green overlap at different depths; blue slopes from
\* depth 0 to the far plane; white has the depth of red and the opposite
\* winding; yellow reaches out of the framebuffer on all sides; grey has
\* less than half a pixel of area and pixel centre (1.5, 1.5) on its edge;
\* pink has its three vertices on one line, through three pixel centres
Triangles ==
    << [color |-> "red",
        v |-> << <<0, 0, <<1, 2>>>>, <<8, 0, <<1, 2>>>>, <<0, 8, <<1, 2>>>> >>],
       [color |-> "green",
        v |-> << <<6, 6, <<1, 4>>>>, <<-2, 6, <<1, 4>>>>, <<6, -2, <<1, 4>>>> >>],
       [color |-> "blue",
        v |-> << <<0, 0, <<0, 1>>>>, <<6, 0, <<1, 1>>>>, <<0, 6, <<1, 1>>>> >>],
       [color |-> "white",
        v |-> << <<0, 0, <<1, 2>>>>, <<0, 6, <<1, 2>>>>, <<6, 0, <<1, 2>>>> >>],
       [color |-> "yellow",
        v |-> << <<-3, 1, <<3, 4>>>>, <<9, 1, <<3, 4>>>>, <<3, 11, <<3, 4>>>> >>],
       [color |-> "grey",
        v |-> << <<2, 3, <<0, 1>>>>, <<4, 3, <<0, 1>>>>, <<3, 4, <<0, 1>>>> >>],
       [color |-> "pink",
        v |-> << <<0, 0, <<0, 1>>>>, <<2, 2, <<0, 1>>>>, <<6, 6, <<0, 1>>>> >>] >>

\* ------------------------------------------------------------------------
\* Octahedral normal codec (render_types.h)
\* ------------------------------------------------------------------------
\* A normal is <<a, b, c, n>>, standing for the floats a / n, b / n, c / n.
\* The arithmetic of packNormal is done on exact fractions, the one of
\* unpackNormal on values kept multiplied by Int16Scale; the rounding of the
\* float operations is left out.
Int16Scale == 32767

RatAbs(a) == <<Abs(a[1]), a[2]>>
RatSub(a, b) == RatAdd(a, <<-b[1], b[2]>>)
RatDiv(a, b) == Rat(a[1] * b[2], a[2] * b[1])
RatOne == <<1, 1>>
RatZero == <<0, 1>>

\* px >= 0.0f ? 1.0f : -1.0f
SignOf(a) == IF ~RatLess(a, RatZero) THEN RatOne ELSE <<-1, 1>>

\* static_cast<int16_t>(p * 32767.0f): the fraction is cut off
ToInt16(p) ==
    IF p[1] >= 0
    THEN (p[1] * Int16Scale) \div p[2]
    ELSE -(((-p[1]) * Int16Scale) \div p[2])

\* packNormal, lines 74-76: px and py before the fold
OctProject(nx, ny, nz) ==
    << RatMul(nx, RatDiv(RatOne, RatAdd(RatAdd(RatAbs(nx), RatAbs(ny)), RatAbs(nz)))),
       RatMul(ny, RatDiv(RatOne, RatAdd(RatAdd(RatAbs(nx), RatAbs(ny)), RatAbs(nz)))) >>

\* packNormal, line 83: py is computed from the px that line 82 assigned
PackFoldY(px, py) == RatMul(RatSub(RatOne, RatAbs(px)), SignOf(py))

\* packNormal, lines 80-83: the fold of the lower hemisphere
PackFold(p) ==
    << RatMul(RatSub(RatOne, RatAbs(p[2])), SignOf(p[1])),
       PackFoldY(RatMul(RatSub(RatOne, RatAbs(p[2])), SignOf(p[1])), p[2]) >>

PackScaled(p) == << ToInt16(p[1]), ToInt16(p[2]) >>

\* packNormal
packNormal(v) ==
    IF v[3] < 0
    THEN PackScaled(PackFold(OctProject(Rat(v[1], v[4]), Rat(v[2], v[4]), Rat(v[3], v[4]))))
    ELSE PackScaled(OctProject(Rat(v[1], v[4]), Rat(v[2], v[4]), Rat(v[3], v[4])))

IntSign(x) == IF x >= 0 THEN 1 ELSE -1

\* unpackNormal, lines 99-115: nx, ny, nz before the normalization, each
\* multiplied by Int16Scale
UnpackDirection(q) ==
    IF Int16Scale - Abs(q[1]) - Abs(q[2]) < 0
    THEN << (Int16Scale - Abs(q[2])) * IntSign(q[1]),
            (Int16Scale - Abs(q[1])) * IntSign(q[2]),
            Int16Scale - Abs(q[1]) - Abs(q[2]) >>
    ELSE << q[1], q[2], Int16Scale - Abs(q[1]) - Abs(q[2]) >>

\* unpackNormal: the result is dir / |dir| when normalized, dir / Int16Scale
\* otherwise (len > 0.0f fails only for the zero vector)
unpackNormal(q) ==
    [ dir |-> UnpackDirection(q),
      normalized |-> UnpackDirection(q) # <<0, 0, 0>> ]

\* the unit normals with integer a, b, c and length n
UnitNormals ==
    { v \in (-MaxNormalLength..MaxNormalLength) \X (-MaxNormalLength..MaxNormalLength)
            \X (-MaxNormalLength..MaxNormalLength) \X (1..MaxNormalLength) :
        v[1] * v[1] + v[2] * v[2] + v[3] * v[3] = v[4] * v[4] }

NoNormal == [stage |-> "none"]

\* ------------------------------------------------------------------------
\* Transform actions
\* ------------------------------------------------------------------------
Init ==
    /\ nodes = [n \in Nodes |-> NewTransform]
    /\ lastOp = [op |-> "none", n |-> NullPtr]
    /\ steps = 0
    /\ meshes = [o \in MeshObjs |-> NewMesh(o)]
    /\ renderer = NewRenderer
    /\ gl = NewGL
    /\ flushLog = <<>>
    /\ queue = NewQueue
    /\ fb = NewFramebuffer(FbWidth, FbHeight)
    /\ drawn = <<>>
    /\ codec = NoNormal
    /\ destroyed = {}

renderVars == <<meshes, renderer, gl, flushLog>>
transformVars == <<nodes, lastOp, steps>>

TransformStep(op, n, ns) ==
    /\ steps < MaxOps
    /\ steps' = steps + 1
    /\ nodes' = ns
    /\ lastOp' = [op |-> op, n |-> n]
    /\ UNCHANGED <<renderVars, queue, fb, drawn, codec, destroyed>>

SetLocalPosition ==
    \E n \in Nodes, v \in PosVals :
        TransformStep("setLocalPosition", n, setLocalPosition(nodes, n, v))

SetLocalRotation ==
    \E n \in Nodes, v \in RotVals :
        TransformStep("setLocalRotation", n, setLocalRotation(nodes, n, v))

SetLocalScale ==
    \E n \in Nodes, v \in ScaleVals :
        TransformStep("setLocalScale", n, setLocalScale(nodes, n, v))

SetWorldPosition ==
    \E n \in Nodes, v \in PosVals :
        TransformStep("setWorldPosition", n, setWorldPosition(nodes, n, v))

SetWorldRotation ==
    \E n \in Nodes, v \in RotVals :
        TransformStep("setWorldRotation", n, setWorldRotation(nodes, n, v))

\* setParent is called by the scene layer on acyclic hierarchies only: the
\* new parent is neither the node itself nor one of its descendants
SetParent ==
    \E n \in Nodes, p \in Nodes \cup {NullPtr} :
        /\ p # n
        /\ p # NullPtr => n \notin Ancestors(nodes, p)
        /\ TransformStep(IF nodes[n].parentTransform = p THEN "setParentSame"
                                                          ELSE "setParent",
                         n, setParent(nodes, n, p))

\* any of getWorldPosition, getWorldRotation, getWorldScale, getWorldMatrix:
\* all four run updateWorldCache and differ in the field they return
GetWorld ==
    \E n \in Nodes :
        TransformStep("getWorld", n, updateWorldCache(nodes, n))

NextTransform ==
    \/ SetLocalPosition
    \/ SetLocalRotation
    \/ SetLocalScale
    \/ SetWorldPosition
    \/ SetWorldRotation
    \/ SetParent
    \/ GetWorld

SpecTransform == Init /\ [][NextTransform]_vars

\* ------------------------------------------------------------------------
\* Renderer actions
\* ------------------------------------------------------------------------
World == [renderer |-> renderer, gl |-> gl, meshes |-> meshes, log |-> <<>>]

\* inputs of the renderer calls
RenderMaterials == {NullPtr, 1, 2, 4}
RenderShaders == {NullPtr, 2, FailedShader}

\* the renderer call op left the world in state w
RenderStep(op, w) ==
    /\ steps' = steps + 1
    /\ lastOp' = [op |-> op, n |-> NullPtr]
    /\ renderer' = w.renderer
    /\ gl' = w.gl
    /\ meshes' = w.meshes
    /\ UNCHANGED <<queue, fb, drawn, codec, destroyed>>

Initialize ==
    /\ steps < MaxRenderOps
    /\ \E ok \in BOOLEAN :
        \E w \in {initialize(World, ok)} :
            /\ RenderStep("initialize", w)
            /\ UNCHANGED <<flushLog, nodes>>

SetShader ==
    /\ steps < MaxRenderOps
    /\ \E s \in RenderShaders :
        \E w \in {setShader(World, s)} :
            /\ RenderStep("setShader", w)
            /\ UNCHANGED <<flushLog, nodes>>

Cleanup ==
    /\ steps < MaxRenderOps
    /\ \E w \in {cleanup(World)} :
        /\ RenderStep("cleanup", w)
        /\ UNCHANGED <<flushLog, nodes>>

\* beginFrame dereferences cameraUBO, which exists while initialized
BeginFrame ==
    /\ steps < MaxRenderOps
    /\ renderer.initialized
    /\ \E w \in {beginFrame(World)} :
            /\ RenderStep("beginFrame", w)
            /\ UNCHANGED <<flushLog, nodes>>

\* renderer.submit(mesh o, transform n's getModelMatrix(), material m)
SubmitFrom(nodeSet, meshSet, matSet) ==
    \E n \in nodeSet, o \in meshSet, m \in matSet :
        /\ steps < MaxRenderOps
        /\ Queue_size(renderer.renderQueue) < MaxQueue
        /\ \E ns \in {updateWorldCache(nodes, n)} :
             \E w \in {submit(World, o, ns[n].cachedWorldMatrix, m, n)} :
                /\ RenderStep("submit", w)
                /\ nodes' = ns
        /\ UNCHANGED flushLog

Submit == SubmitFrom({1}, MeshObjs, RenderMaterials)

\* the positions of the queue at which Material::applyToShader can be
\* called, and so can throw
ThrowSites(cmds) ==
    {i \in 1..Len(cmds) : cmds[i].mesh # NullPtr /\ MaterialUsable(cmds[i].material)}

Flush ==
    /\ steps < MaxRenderOps
    /\ \E sorted \in SortOutcomes(renderer.renderQueue.commands) :
       \E thr \in SUBSET ThrowSites(sorted) :
        \E w \in {flush(World, sorted, thr, nodes)} :
            /\ RenderStep("flush", w)
            /\ flushLog' = w.log
            /\ UNCHANGED nodes

\* the legacy drawMesh: beginFrame, submit, flush
DrawMesh ==
    \E o \in MeshObjs, m \in {NullPtr, 1}, throws \in BOOLEAN :
        /\ steps < MaxRenderOps
        /\ renderer.initialized
        /\ \E ns \in {updateWorldCache(nodes, 1)} :
             \E w1 \in {submit(beginFrame(World), o, ns[1].cachedWorldMatrix, m, 1)} :
              \E w2 \in {flush(w1, w1.renderer.renderQueue.commands,
                                IF throws THEN {1} ELSE {}, ns)} :
                /\ RenderStep("drawMesh", w2)
                /\ flushLog' = w2.log
                /\ nodes' = ns

\* the owner of a mesh replaces its vertices and triangles by other ones and
\* marks it dirty
MeshEdit ==
    \E o \in MeshObjs, g \in GeomVals :
        /\ steps < MaxRenderOps
        /\ g # meshes[o].triangles
        /\ steps' = steps + 1
        /\ lastOp' = [op |-> "meshEdit", n |-> NullPtr]
        /\ meshes' = Mesh_markDirty([meshes EXCEPT ![o].vertices = g,
                                                   ![o].triangles = g], o)
        /\ UNCHANGED <<renderer, gl, flushLog, queue, nodes, fb, drawn, codec, destroyed>>

NextRender ==
    \/ Initialize
    \/ SetShader
    \/ Cleanup
    \/ BeginFrame
    \/ Submit
    \/ Flush
    \/ DrawMesh
    \/ MeshEdit

SpecRender == Init /\ [][NextRender]_vars

\* ------------------------------------------------------------------------
\* Reference: world transform recomposed from the whole ancestor chain
\* ------------------------------------------------------------------------
RECURSIVE EagerPosition(_, _)
EagerPosition(ns, n) ==
    IF ns[n].parentTransform = NullPtr THEN ns[n].localPosition
    ELSE Vec3Add(EagerPosition(ns, ns[n].parentTransform), ns[n].localPosition)

RECURSIVE EagerRotation(_, _)
EagerRotation(ns, n) ==
    IF ns[n].parentTransform = NullPtr THEN ns[n].localRotation
    ELSE Vec3Add(EagerRotation(ns, ns[n].parentTransform), ns[n].localRotation)

RECURSIVE EagerScale(_, _)
EagerScale(ns, n) ==
    IF ns[n].parentTransform = NullPtr THEN ns[n].localScale
    ELSE LET ps == EagerScale(ns, ns[n].parentTransform)
         IN  << ps[1] * ns[n].localScale[1], ps[2] * ns[n].localScale[2],
                ps[3] * ns[n].localScale[3] >>

RECURSIVE EagerMatrix(_, _)
EagerMatrix(ns, n) ==
    LET localMat == LocalMatrix(ns[n].localPosition, ns[n].localRotation,
                                ns[n].localScale)
    IN  IF ns[n].parentTransform = NullPtr THEN localMat
        ELSE mat4_mul(EagerMatrix(ns, ns[n].parentTransform), localMat)

\* n and its transitive descendants
SubtreeOf(ns, n) == {n} \cup {d \in Nodes : n \in Ancestors(ns, d)}

\* C1: in every reachable state, each world getter called on any node returns
\* the value recomposed from the node's local transform and its whole
\* ancestor chain (the cache is never observably stale).
C1_CacheTransparent ==
    \A n \in Nodes :
        /\ getWorldPosition(nodes, n) = EagerPosition(nodes, n)
        /\ getWorldRotation(nodes, n) = EagerRotation(nodes, n)
        /\ getWorldScale(nodes, n) = EagerScale(nodes, n)
        /\ getWorldMatrix(nodes, n) = EagerMatrix(nodes, n)

\* C2: right after setLocalPosition, setLocalRotation, setLocalScale or a
\* setParent that changed the parent returned on node n, n and every
\* transitive descendant of n has worldCacheDirty set.
C2_SubtreeStale ==
    lastOp.op \in {"setLocalPosition", "setLocalRotation", "setLocalScale", "setParent"}
        => \A d \in SubtreeOf(nodes, lastOp.n) : nodes[d].worldCacheDirty

\* ------------------------------------------------------------------------
\* A DrawCommandQueue used on its own
\* ------------------------------------------------------------------------
\* inputs of DrawCommandQueue::submit: <<mesh, material, depth>>
QueueInputs ==
    ({1, 2} \X {1, 3, 6} \X {0})
        \cup ({1} \X {1} \X {1, -2})
        \cup ({NullPtr} \X {NullPtr, 1} \X {0, -2})

\* the ids of the live meshes after other meshes were created and destroyed
\* in between: the ids 1, 65538, 131075, ...
InitQueue ==
    /\ nodes = [n \in Nodes |-> NewTransform]
    /\ lastOp = [op |-> "none", n |-> NullPtr]
    /\ steps = 0
    /\ meshes = [o \in MeshObjs |-> NewMesh(o + 65536 * (o - 1))]
    /\ renderer = NewRenderer
    /\ gl = NewGL
    /\ flushLog = <<>>
    /\ queue = NewQueue
    /\ fb = NewFramebuffer(FbWidth, FbHeight)
    /\ drawn = <<>>
    /\ codec = NoNormal
    /\ destroyed = {}

QueueStep(op, q) ==
    /\ queue' = q
    /\ lastOp' = [op |-> op, n |-> NullPtr]
    /\ UNCHANGED <<nodes, steps, meshes, renderer, gl, flushLog, fb, drawn, codec, destroyed>>

QueueSubmit ==
    \E c \in QueueInputs :
        /\ Queue_size(queue) < MaxQueue
        /\ QueueStep("submit",
              Queue_submit(queue, NewCommand(meshes, c[1], c[2], mat4_identity,
                                             c[3], NullPtr)))

QueueSort ==
    \E sorted \in SortOutcomes(queue.commands) :
        QueueStep("sort", Queue_sort(queue, sorted))

\* getCommands sorts when needed and returns the commands
QueueGetCommands ==
    \E sorted \in SortOutcomes(queue.commands) :
        QueueStep("getCommands", Queue_sort(queue, sorted))

QueueClear == QueueStep("clear", Queue_clear(queue))

NextQueue ==
    \/ QueueSubmit
    \/ QueueSort
    \/ QueueGetCommands
    \/ QueueClear

SpecQueue == InitQueue /\ [][NextQueue]_vars

\* ------------------------------------------------------------------------
\* A frame: transforms change between submit and flush
\* ------------------------------------------------------------------------
\* the objects of the frame: a transform and its parent-to-be
FrameNodes == {1, 2}

SubmitNode == SubmitFrom(FrameNodes, {1}, {NullPtr})

\* the scene changes a transform of the frame
FrameMutate ==
    \E n \in FrameNodes :
        \/ \E v \in PosVals :
              TransformStep("setLocalPosition", n, setLocalPosition(nodes, n, v))
        \/ \E v \in RotVals :
              TransformStep("setLocalRotation", n, setLocalRotation(nodes, n, v))
        \/ \E v \in ScaleVals :
              TransformStep("setLocalScale", n, setLocalScale(nodes, n, v))
        \/ \E v \in PosVals :
              TransformStep("setWorldPosition", n, setWorldPosition(nodes, n, v))
        \/ \E v \in RotVals :
              TransformStep("setWorldRotation", n, setWorldRotation(nodes, n, v))
        \/ \E p \in (FrameNodes \cup {NullPtr}) \ {n} :
              /\ p # NullPtr => n \notin Ancestors(nodes, p)
              /\ nodes[n].parentTransform # p
              /\ TransformStep("setParent", n, setParent(nodes, n, p))

NextFrame ==
    \/ FrameMutate
    \/ Initialize
    \/ SubmitNode
    \/ Flush

SpecFrame == Init /\ [][NextFrame]_vars

\* ------------------------------------------------------------------------
\* Claims about flush()
\* ------------------------------------------------------------------------
\* entries of the log of the last flush
LogEntries == {flushLog[i] : i \in 1..Len(flushLog)}
Drawn == {e \in LogEntries : e.draw.draws = 1}

\* the program a command is to be drawn with: the material's shader when the
\* material and its shader are valid (and applying it did not throw), the
\* renderer's default shader otherwise
ProgramFor(e) ==
    IF MaterialUsable(e.cmd.material) /\ ~e.threw
    THEN Shader_getID(Material_getShader(e.cmd.material))
    ELSE Shader_getID(e.activeShader)

\* C3: at every draw call of flush() the program bound in the GL context is
\* the shader of the command's material when material and shader are valid,
\* and the renderer's default shader otherwise.
C3_DrawUsesCommandShader ==
    \A e \in Drawn : e.draw.program = ProgramFor(e)

\* C4: every command with a non-null mesh that flush() processes while the
\* default shader is valid produces exactly one draw call.
C4_OneDrawPerCommand ==
    \A e \in LogEntries :
        (e.cmd.mesh # NullPtr /\ e.activeShader # NullPtr
            /\ Shader_isValid(e.activeShader))
          => e.draw.draws = 1

\* C5: a command whose mesh id is cached and whose mesh is not dirty causes
\* no glGen* and no glBufferData call and leaves the cached MeshBuffer
\* (handles and index count) and the buffer contents as they were.
C5_CleanHitNoTraffic ==
    \A e \in LogEntries :
        (e.hit /\ ~e.wasDirty)
          => /\ e.gens = 0
             /\ e.uploads = 0
             /\ e.after = e.before
             /\ e.idsAfter = e.idsBefore

C5_Witness ==
    \E e \in LogEntries : e.hit /\ ~e.wasDirty /\ e.draw.draws = 1

\* C6: a command whose mesh id is cached and whose mesh is dirty re-uploads
\* the current vertex and index data into the existing buffers: the handles
\* are unchanged, no cache entry is added, no name is generated, the index
\* count is three times the current triangle count, and the mesh is clean
\* afterwards.
C6_DirtyHitReuploads ==
    \A e \in LogEntries :
        (e.hit /\ e.wasDirty)
          => /\ e.after.VAO = e.before.VAO
             /\ e.after.VBO = e.before.VBO
             /\ e.after.EBO = e.before.EBO
             /\ e.idsAfter = e.idsBefore
             /\ e.gens = 0
             /\ e.uploads = 2
             /\ e.after.indexCount = 3 * e.meshAfter.triangles
             /\ e.vboData = PackedVertices(e.meshAfter)
             /\ e.eboData = IndexData(e.meshAfter)
             /\ ~e.meshAfter.isDirty

C6_Witness ==
    \E e \in LogEntries :
        /\ e.hit /\ e.wasDirty
        /\ e.after.indexCount # e.before.indexCount

\* handles of a MeshBuffer
Handles(b) == <<b.VAO, b.VBO, b.EBO>>

\* C7: between initialize() and cleanup() GPU buffers are created once per
\* mesh id: each cache miss generates one VAO, VBO and EBO and a hit none,
\* the live GL names are those of the cache entries, no entry is removed
\* or gets other handles, and right after a flush every mesh of its
\* commands has a cache entry and is clean.
C7_OnceUntilCleanup ==
    /\ [](/\ \A e \in LogEntries :
                e.cmd.mesh # NullPtr =>
                    /\ e.gens = (IF e.hit THEN 0 ELSE 3)
                    /\ e.meshAfter.meshID \in e.idsAfter
                    /\ e.idsBefore \subseteq e.idsAfter
                    /\ ~e.meshAfter.isDirty
          /\ Cardinality(gl.vaos) = Cardinality(DOMAIN renderer.meshBuffers)
          /\ Cardinality(DOMAIN gl.buffers)
                = 2 * Cardinality(DOMAIN renderer.meshBuffers)
          /\ lastOp.op \in {"flush", "drawMesh"} =>
                \A e \in LogEntries :
                    e.cmd.mesh # NullPtr =>
                        /\ meshes[e.cmd.mesh].meshID \in DOMAIN renderer.meshBuffers
                        /\ ~meshes[e.cmd.mesh].isDirty)
    /\ [][(renderer.initialized /\ renderer.initialized') =>
            \A id \in DOMAIN renderer.meshBuffers :
                /\ id \in DOMAIN renderer.meshBuffers'
                /\ Handles(renderer.meshBuffers'[id]) = Handles(renderer.meshBuffers[id])]_vars

C7_Witness ==
    /\ lastOp.op = "drawMesh"
    /\ renderer.initialized
    /\ Cardinality(DOMAIN renderer.meshBuffers) >= 2
    /\ \E e \in LogEntries :
        /\ e.hit /\ e.gens = 0
        /\ Handles(e.after) = Handles(e.before)

\* ------------------------------------------------------------------------
\* Claims about the sort key and the queue
\* ------------------------------------------------------------------------
QueueCommands == {queue.commands[i] : i \in 1..Len(queue.commands)}

\* C8: after sort(), the commands of any material are contiguous: no command
\* of another material lies between two commands of one material.
C8_MaterialsContiguous ==
    ~queue.needsSort =>
        \A i, j, k \in 1..Len(queue.commands) :
            (/\ i < j /\ j < k
             /\ queue.commands[i].material # NullPtr
             /\ queue.commands[i].material = queue.commands[k].material)
              => queue.commands[j].material = queue.commands[i].material

\* the id generateSortKey takes for the material of a command (the program
\* id of its shader) and for its mesh, 0 when absent
MaterialIdOf(cmd) ==
    IF cmd.material # NullPtr /\ Material_getShader(cmd.material) # NullPtr
    THEN Shader_getID(Material_getShader(cmd.material))
    ELSE 0

MeshIdOf(cmd) == IF cmd.mesh # NullPtr THEN meshes[cmd.mesh].meshID ELSE 0

\* bits lo..hi of key k, moved down to position 0
KeyField(k, lo, hi) == {i - lo : i \in k \cap (lo..hi)}

\* sign, biased exponent and mantissa of the single-precision float d
FloatFields(d) ==
    IF d = 0 THEN <<0, 0, 0>>
    ELSE LET a == IF d < 0 THEN -d ELSE d
             e == CHOOSE x \in 0..22 : Exp2(x) <= a /\ a < Exp2(x + 1)
         IN  << IF d < 0 THEN 1 ELSE 0, e + 127, (a - Exp2(e)) * Exp2(23 - e) >>

\* a < b for tuples of numbers of the same length, lexicographically
LexLess(a, b) ==
    \E i \in 1..Len(a) :
        /\ a[i] < b[i]
        /\ \A j \in 1..(i - 1) : a[j] = b[j]

\* (materialBits, meshBits, depthBits), depthBits by its fields
KeyTriple(cmd) ==
    <<MaterialIdOf(cmd) % 65536, MeshIdOf(cmd) % 65536>> \o FloatFields(cmd.depth)

\* C9: the key holds the low 16 bits of the material id (the program id of
\* the material's shader, 0 without one) in bits 63-48, the
\* low 16 bits of the mesh id in bits 47-32 and the bit pattern of the depth
\* in bits 31-0; comparing keys as unsigned integers is comparing
\* (materialBits, meshBits, depthBits) lexicographically; sort() leaves the
\* commands ascending by that triple.
C9_KeyLayout ==
    /\ \A c \in QueueCommands :
        /\ KeyField(c.sortKey, 48, 63) = BitsOf(MaterialIdOf(c) % 65536)
        /\ KeyField(c.sortKey, 32, 47) = BitsOf(MeshIdOf(c) % 65536)
        /\ KeyField(c.sortKey, 0, 31) = FloatBits(c.depth)
    /\ \A c, d \in QueueCommands :
        U64Less(c.sortKey, d.sortKey) <=> LexLess(KeyTriple(c), KeyTriple(d))
    /\ ~queue.needsSort =>
        \A i, j \in 1..Len(queue.commands) :
            i < j => ~LexLess(KeyTriple(queue.commands[j]), KeyTriple(queue.commands[i]))

C9_Witness ==
    /\ lastOp.op = "sort"
    /\ Len(queue.commands) = MaxQueue
    /\ \E c \in QueueCommands : MeshIdOf(c) >= 65536
    /\ \E c \in QueueCommands : MaterialIdOf(c) >= 65536
    /\ \E c \in QueueCommands : c.depth < 0
    /\ LexLess(KeyTriple(queue.commands[1]), KeyTriple(queue.commands[MaxQueue]))

\* ------------------------------------------------------------------------
\* Claims about a frame
\* ------------------------------------------------------------------------
\* C10: a command is drawn with the matrix that was passed to submit(),
\* whatever happened to the transform it was read from since.
C10_MatrixCaptured ==
    \A e \in Drawn : e.draw.model = e.cmd.modelMatrix

C10_Witness ==
    /\ lastOp.op = "flush"
    /\ \E e \in Drawn :
        /\ e.cmd.node # NullPtr
        /\ getWorldMatrix(nodes, e.cmd.node) # e.cmd.modelMatrix

\* ------------------------------------------------------------------------
\* Further claims about flush()
\* ------------------------------------------------------------------------
\* C11: when flush() has returned, whether the renderer is initialized or
\* not, the render queue holds no commands.
C11_QueueEmptyAfterFlush ==
    lastOp.op \in {"flush", "drawMesh"} => Queue_empty(renderer.renderQueue)

\* C12: when Material::applyToShader throws for a command, only that command
\* falls back to the default shader: the next command of the queue, when it
\* uses the same material and applying it does not throw, has the material
\* applied and is drawn with the program of the material's shader.
C12_FallbackForOneCommand ==
    \A i \in 1..(Len(flushLog) - 1) :
        (/\ flushLog[i].threw
         /\ flushLog[i + 1].cmd.mesh # NullPtr
         /\ flushLog[i + 1].cmd.material = flushLog[i].cmd.material
         /\ ~flushLog[i + 1].threw)
          => /\ flushLog[i + 1].applied
             /\ flushLog[i + 1].draw.draws = 1
             /\ flushLog[i + 1].draw.program =
                    Shader_getID(Material_getShader(flushLog[i + 1].cmd.material))

\* ------------------------------------------------------------------------
\* The renderer without cleanup()
\* ------------------------------------------------------------------------
NextBind ==
    \/ Initialize
    \/ SetShader
    \/ BeginFrame
    \/ Submit
    \/ Flush
    \/ DrawMesh
    \/ MeshEdit

SpecBind == Init /\ [][NextBind]_vars

\* C13: in every state reached through initialize, setShader, beginFrame,
\* submit, flush and drawMesh the cached boundVAO and boundShader are the
\* vertex array and the program bound in the GL context, and every draw call
\* was issued with the vertex array of the command's mesh bound.
C13_RenderStateExact ==
    /\ renderer.currentState.boundVAO = gl.vao
    /\ renderer.currentState.boundShader = gl.program
    /\ \A e \in Drawn : e.draw.vao = e.after.VAO

\* ------------------------------------------------------------------------
\* Rasterizer actions: a framebuffer that is cleared and drawn into
\* ------------------------------------------------------------------------
RasterStep(op, n, f, d) ==
    /\ lastOp' = [op |-> op, n |-> n]
    /\ fb' = f
    /\ drawn' = d
    /\ UNCHANGED <<nodes, steps, meshes, renderer, gl, flushLog, queue, codec, destroyed>>

ClearFramebuffer == RasterStep("clear", 0, Framebuffer_clear(fb), <<>>)

DrawFilledTriangle ==
    \E t \in DOMAIN Triangles :
        /\ Len(drawn) < MaxDraws
        /\ RasterStep("drawFilledTriangle", t,
                      drawFilledTriangle(fb, Triangles[t]), Append(drawn, t))

NextRaster == ClearFramebuffer \/ DrawFilledTriangle

SpecRaster == Init /\ [][NextRaster]_vars

Pixels == (0..(FbWidth - 1)) \X (0..(FbHeight - 1))

\* the barycentric coordinates drawFilledTriangle computes for pixel (x, y)
PixelBarycentric(tri, x, y) ==
    barycentric(<<2 * x + 1, 2 * y + 1, 0>>, tri.v[1], tri.v[2], tri.v[3])

InBox(box, x, y) ==
    x >= box.minX /\ x <= box.maxX /\ y >= box.minY /\ y <= box.maxY

\* drawFilledTriangle reaches its depth test for pixel (x, y) of f
HasFragment(f, tri, x, y) ==
    /\ InBox(BoundingBox(f, tri), x, y)
    /\ Covers(PixelBarycentric(tri, x, y))

FragmentDepth(tri, x, y) == InterpolateDepth(PixelBarycentric(tri, x, y), tri)

\* the triangle of s and t whose fragment at (x, y) is the nearer one
Nearer(s, t, x, y) ==
    IF RatLess(FragmentDepth(Triangles[s], x, y), FragmentDepth(Triangles[t], x, y))
    THEN s ELSE t

Overlap(f, s, t, x, y) ==
    /\ HasFragment(f, Triangles[s], x, y)
    /\ HasFragment(f, Triangles[t], x, y)
    /\ FragmentDepth(Triangles[s], x, y) # FragmentDepth(Triangles[t], x, y)
    /\ ~RatLess(FarDepth, FragmentDepth(Triangles[s], x, y))
    /\ ~RatLess(FarDepth, FragmentDepth(Triangles[t], x, y))

LastTriangle == Triangles[drawn[Len(drawn)]]

\* C15 (state part): a pixel never written since the framebuffer was created or
\* cleared holds the far depth; a written pixel holds the colour and the depth
\* of one and the same fragment of a triangle drawn since then.
C15_ColorMatchesDepth ==
    \A p \in Pixels :
        \/ /\ Framebuffer_getDepth(fb, p[1], p[2]) = FarDepth
           /\ Framebuffer_getPixel(fb, p[1], p[2]) \in {"black", "clear"}
        \/ \E k \in 1..Len(drawn) :
              /\ HasFragment(fb, Triangles[drawn[k]], p[1], p[2])
              /\ Framebuffer_getPixel(fb, p[1], p[2]) = Triangles[drawn[k]].color
              /\ Framebuffer_getDepth(fb, p[1], p[2]) =
                     FragmentDepth(Triangles[drawn[k]], p[1], p[2])

\* C15 (step part): a filled-triangle draw changes a pixel only where the
\* triangle has a fragment strictly nearer than the stored depth, and there it
\* writes the fragment's colour and depth together; elsewhere, and so for a
\* fragment of equal or greater depth, colour and depth stay, and no stored
\* depth increases.
C15_DrawStep ==
    lastOp'.op = "drawFilledTriangle" /\ Len(drawn') = Len(drawn) + 1 =>
        \A p \in Pixels :
            IF /\ HasFragment(fb, Triangles[lastOp'.n], p[1], p[2])
               /\ RatLess(FragmentDepth(Triangles[lastOp'.n], p[1], p[2]),
                          Framebuffer_getDepth(fb, p[1], p[2]))
            THEN /\ Framebuffer_getDepth(fb', p[1], p[2]) =
                        FragmentDepth(Triangles[lastOp'.n], p[1], p[2])
                 /\ Framebuffer_getPixel(fb', p[1], p[2]) = Triangles[lastOp'.n].color
            ELSE /\ Framebuffer_getDepth(fb', p[1], p[2]) =
                        Framebuffer_getDepth(fb, p[1], p[2])
                 /\ Framebuffer_getPixel(fb', p[1], p[2]) =
                        Framebuffer_getPixel(fb, p[1], p[2])

\* C15: in solid rendering a fragment modifies a pixel only if its depth is
\* strictly less than the stored depth, colour and depth are written together,
\* a fragment of equal or greater depth changes nothing and the stored depth of
\* a pixel never increases.
C15_StrictDepthTest == []C15_ColorMatchesDepth /\ [][C15_DrawStep]_vars

\* a fragment of the depth already stored was rejected: the pixel keeps the
\* colour of the triangle drawn before
C15_Witness ==
    /\ lastOp.op = "drawFilledTriangle"
    /\ Len(drawn) >= 2
    /\ \E p \in Pixels :
          /\ HasFragment(fb, LastTriangle, p[1], p[2])
          /\ FragmentDepth(LastTriangle, p[1], p[2]) = Framebuffer_getDepth(fb, p[1], p[2])
          /\ Framebuffer_getPixel(fb, p[1], p[2]) # LastTriangle.color

\* the sign of the area of triangle (a, b, p), twice over
Orient(a, b, p) == (b[1] - a[1]) * (p[2] - a[2]) - (b[2] - a[2]) * (p[1] - a[1])

\* the centre of pixel (x, y) lies in the closed triangle tri, by the three
\* edge functions
CentreInTriangle(tri, x, y) ==
    \/ /\ Orient(tri.v[1], tri.v[2], <<2 * x + 1, 2 * y + 1>>) >= 0
       /\ Orient(tri.v[2], tri.v[3], <<2 * x + 1, 2 * y + 1>>) >= 0
       /\ Orient(tri.v[3], tri.v[1], <<2 * x + 1, 2 * y + 1>>) >= 0
    \/ /\ Orient(tri.v[1], tri.v[2], <<2 * x + 1, 2 * y + 1>>) <= 0
       /\ Orient(tri.v[2], tri.v[3], <<2 * x + 1, 2 * y + 1>>) <= 0
       /\ Orient(tri.v[3], tri.v[1], <<2 * x + 1, 2 * y + 1>>) <= 0

\* column x and row y lie between the truncated extremes of the vertices
InScreenBox(tri, x, y) ==
    /\ x >= TruncHalf(Min2(tri.v[1][1], Min2(tri.v[2][1], tri.v[3][1])))
    /\ x <= TruncHalf(Max2(tri.v[1][1], Max2(tri.v[2][1], tri.v[3][1])))
    /\ y >= TruncHalf(Min2(tri.v[1][2], Min2(tri.v[2][2], tri.v[3][2])))
    /\ y <= TruncHalf(Max2(tri.v[1][2], Max2(tri.v[2][2], tri.v[3][2])))

\* element i of the buffers changes in this step
ElementChanged(i) ==
    \/ fb'.colorBuffer[i] # fb.colorBuffer[i]
    \/ fb'.depthBuffer[i] # fb.depthBuffer[i]

C16_DrawStep ==
    lastOp'.op = "drawFilledTriangle" /\ Len(drawn') = Len(drawn) + 1 =>
        /\ fb'.width = fb.width /\ fb'.height = fb.height
        /\ DOMAIN fb'.colorBuffer = DOMAIN fb.colorBuffer
        /\ DOMAIN fb'.depthBuffer = DOMAIN fb.depthBuffer
        /\ \A i \in DOMAIN fb.colorBuffer :
              ElementChanged(i) =>
                  \E p \in Pixels :
                      /\ i = Framebuffer_index(fb, p[1], p[2])
                      /\ InScreenBox(Triangles[lastOp'.n], p[1], p[2])
                      /\ CentreInTriangle(Triangles[lastOp'.n], p[1], p[2])
                      /\ Covers(PixelBarycentric(Triangles[lastOp'.n], p[1], p[2]))

\* C16: drawFilledTriangle changes the colour or the depth only of pixels
\* inside the framebuffer, inside the triangle's screen-space bounding box and
\* with a pixel centre inside the triangle (no barycentric coordinate
\* negative); it leaves every other element of the buffers, and their sizes,
\* as they were.
C16_WritesOnlyCoveredPixels == [][C16_DrawStep]_vars

\* a triangle reaching out of the framebuffer has been drawn: it wrote some
\* pixels of its box and left others
C16_Witness ==
    /\ lastOp.op = "drawFilledTriangle"
    /\ \E i \in 1..3 : LastTriangle.v[i][1] < 0 \/ LastTriangle.v[i][2] > 2 * FbHeight
    /\ \E p \in Pixels : Framebuffer_getPixel(fb, p[1], p[2]) = LastTriangle.color
    /\ \E p \in Pixels :
          /\ InBox(BoundingBox(fb, LastTriangle), p[1], p[2])
          /\ Framebuffer_getPixel(fb, p[1], p[2]) # LastTriangle.color

\* ------------------------------------------------------------------------
\* Normal codec actions: a normal is packed, then unpacked
\* ------------------------------------------------------------------------
CodecStep(op, c) ==
    /\ lastOp' = [op |-> op, n |-> NullPtr]
    /\ codec' = c
    /\ UNCHANGED <<nodes, steps, meshes, renderer, gl, flushLog, queue, fb, drawn, destroyed>>

PackNormal ==
    \E v \in UnitNormals :
        /\ codec.stage = "none"
        /\ CodecStep("packNormal", [stage |-> "packed", v |-> v, packed |-> packNormal(v)])

UnpackNormal ==
    /\ codec.stage = "packed"
    /\ CodecStep("unpackNormal",
                 [stage |-> "unpacked", v |-> codec.v, packed |-> codec.packed,
                  out |-> unpackNormal(codec.packed)])

NextCodec == PackNormal \/ UnpackNormal

SpecCodec == Init /\ [][NextCodec]_vars

Dot3(a, b) == a[1] * b[1] + a[2] * b[2] + a[3] * b[3]
L1Norm(a) == Abs(a[1]) + Abs(a[2]) + Abs(a[3])

\* What an angle below 0.01 radians between the unit normal v = (a, b, c) / n
\* and the direction w implies: the two point to the same side (v . w > 0),
\* and |(a, b, c) x w| = n |w| sin(angle) < n |w| / 100, hence each component
\* of the cross product is below n * (|w.x| + |w.y| + |w.z|) / 100.
AngleBelowStep(v, w) ==
    /\ Dot3(v, w) > 0
    /\ \A i \in 1..3 : 100 * Abs(vec3_cross(v, w)[i]) < v[4] * L1Norm(w)

\* C17: for every unit normal v, of the upper and of the lower hemisphere,
\* unpackNormal(packNormal(v)) is a unit vector (it has been normalized) whose
\* angle to v is under 0.01 radians.
C17_NormalRoundTrip ==
    codec.stage = "unpacked" =>
        /\ codec.out.normalized
        /\ AngleBelowStep(codec.v, codec.out.dir)

\* ------------------------------------------------------------------------
\* The renderer with colliding ids: all mesh ids agree in their low 16 bits,
\* and materials 2 and 6 have shaders whose program ids (3 and 65539) do
\* ------------------------------------------------------------------------
CollidingMaterials == {2, 6}

InitCollide ==
    /\ nodes = [n \in Nodes |-> NewTransform]
    /\ lastOp = [op |-> "none", n |-> NullPtr]
    /\ steps = 0
    /\ meshes = [o \in MeshObjs |-> NewMesh(1 + 65536 * (o - 1))]
    /\ renderer = NewRenderer
    /\ gl = NewGL
    /\ flushLog = <<>>
    /\ queue = NewQueue
    /\ fb = NewFramebuffer(FbWidth, FbHeight)
    /\ drawn = <<>>
    /\ codec = NoNormal
    /\ destroyed = {}

SubmitColliding == SubmitFrom({1}, MeshObjs, CollidingMaterials)

NextCollide == Initialize \/ SubmitColliding \/ Flush

SpecCollide == InitCollide /\ [][NextCollide]_vars

\* C18: commands whose mesh ids, or whose material ids, agree in their low 16
\* bits have equal mesh, or material, fields in their sort keys, and every
\* command that flush() draws is drawn with the vertex array of its own
\* mesh's cached buffer bound and with its own material's shader as program
\* (the default shader when applying the material threw).
C18_CollisionsOnlyReorder ==
    /\ \A e, f \in LogEntries :
          /\ MeshIdOf(e.cmd) % 65536 = MeshIdOf(f.cmd) % 65536
                => KeyField(e.cmd.sortKey, 32, 47) = KeyField(f.cmd.sortKey, 32, 47)
          /\ MaterialIdOf(e.cmd) % 65536 = MaterialIdOf(f.cmd) % 65536
                => KeyField(e.cmd.sortKey, 48, 63) = KeyField(f.cmd.sortKey, 48, 63)
    /\ \A e \in Drawn :
          /\ e.after.meshID = MeshIdOf(e.cmd)
          /\ e.draw.vao = e.after.VAO
          /\ e.draw.program = ProgramFor(e)

\* ------------------------------------------------------------------------
\* Transform hierarchy with destruction: calls go to live nodes only
\* ------------------------------------------------------------------------
LiveNodes == Nodes \ destroyed

LiveStep(op, ns, d) ==
    /\ steps < MaxOps
    /\ steps' = steps + 1
    /\ nodes' = ns
    /\ lastOp' = op
    /\ destroyed' = d
    /\ UNCHANGED <<renderVars, queue, fb, drawn, codec>>

SetParentLive ==
    \E n \in LiveNodes, p \in LiveNodes \cup {NullPtr} :
        /\ p # n
        /\ p # NullPtr => n \notin Ancestors(nodes, p)
        /\ LiveStep([op |-> "setParent", n |-> n], setParent(nodes, n, p), destroyed)

GetWorldLive ==
    \E n \in LiveNodes :
        LiveStep([op |-> "getWorld", n |-> n], updateWorldCache(nodes, n), destroyed)

\* the destructor of n runs; lastOp keeps the parent and the children n had
Destroy ==
    \E n \in LiveNodes :
        LiveStep([op |-> "destroy", n |-> n,
                  parent |-> nodes[n].parentTransform, children |-> nodes[n].children],
                 TransformComponent_destructor(nodes, n), destroyed \cup {n})

NextDestroy == SetParentLive \/ GetWorldLive \/ Destroy

SpecDestroy == Init /\ [][NextDestroy]_vars

SeqRange(s) == {s[i] : i \in 1..Len(s)}

\* C19 (state part): no surviving node has a destroyed node as parent or in
\* its child list.
C19_NoLinkToDestroyed ==
    \A m \in LiveNodes :
        /\ nodes[m].parentTransform \notin destroyed
        /\ SeqRange(nodes[m].children) \cap destroyed = {}

\* C19 (step part): when the destructor of n has run, each node that was a
\* child of n has no parent and is marked dirty.
C19_DestroyStep ==
    lastOp'.op = "destroy" /\ destroyed' # destroyed =>
        \A c \in SeqRange(nodes[lastOp'.n].children) :
            /\ nodes'[c].parentTransform = NullPtr
            /\ nodes'[c].isDirty
            /\ nodes'[c].worldCacheDirty

\* C19: after a TransformComponent is destroyed, no surviving node has it as
\* parent or lists it among its children, and each of its former children is
\* a root and is marked dirty.
C19_DestructorDetaches == []C19_NoLinkToDestroyed /\ [][C19_DestroyStep]_vars

\* a node with a parent and a child was destroyed; the child is a root now
C19_Witness ==
    /\ lastOp.op = "destroy"
    /\ lastOp.parent # NullPtr
    /\ lastOp.children # <<>>
    /\ \A c \in SeqRange(lastOp.children) :
          nodes[c].parentTransform = NullPtr /\ nodes[c].worldCacheDirty
    /\ lastOp.n \notin SeqRange(nodes[lastOp.parent].children)

\* the hierarchy under setParent, with the calls that make local fields,
\* cached world values and dirty flags differ from node to node
NextReparent == SetParent \/ SetLocalPosition \/ GetWorld

SpecReparent == Init /\ [][NextReparent]_vars

\* C20: setParent(p) on a node whose parent is already p, setParent(none) on a
\* root included, changes nothing: parent links, child lists with their
\* order, local fields, cached world values and dirty flags of all nodes stay.
C20_SetSameParentNoOp ==
    [][lastOp'.op = "setParentSame" => nodes' = nodes]_vars

\* setParent(p) was called on a node with parent p whose cache is clean
C20_Witness ==
    /\ lastOp.op = "setParentSame"
    /\ nodes[lastOp.n].parentTransform # NullPtr
    /\ ~nodes[lastOp.n].worldCacheDirty

\* ------------------------------------------------------------------------
\* A chain of nested transforms with clean caches, written to and read
\* ------------------------------------------------------------------------
\* number of calls made on the chain
MaxChainOps == 3

\* the nodes whose cache one call of updateWorldCache on n recomputes, in the
\* order in which they finish: a dirty node with a parent calls the parent's
\* getWorldMatrix, getWorldPosition, getWorldRotation and getWorldScale, each
\* of which runs updateWorldCache on the parent, and then stores its own
\* values
RECURSIVE RecomputeTrace(_, _)
RecomputeTrace(ns, n) ==
    IF ~ns[n].worldCacheDirty THEN <<>>
    ELSE IF ns[n].parentTransform = NullPtr THEN <<n>>
    ELSE RecomputeTrace(ns, ns[n].parentTransform)
         \o RecomputeTrace(updateWorldCache(ns, ns[n].parentTransform),
                           ns[n].parentTransform)
         \o RecomputeTrace(updateWorldCache(updateWorldCache(ns, ns[n].parentTransform),
                                            ns[n].parentTransform),
                           ns[n].parentTransform)
         \o RecomputeTrace(
                updateWorldCache(
                    updateWorldCache(updateWorldCache(ns, ns[n].parentTransform),
                                     ns[n].parentTransform),
                    ns[n].parentTransform),
                ns[n].parentTransform)
         \o <<n>>

\* node k + 1 is made the child of node k, for k from i on
RECURSIVE BuildChain(_, _)
BuildChain(ns, i) ==
    IF i >= NNodes THEN ns ELSE BuildChain(setParent(ns, i + 1, i), i + 1)

\* the chain 1 <- 2 <- .. <- NNodes after its deepest node has been read
InitChain ==
    /\ nodes = updateWorldCache(BuildChain([n \in Nodes |-> NewTransform], 1), NNodes)
    /\ lastOp = [op |-> "none", n |-> NullPtr, trace |-> <<>>, prev |-> "none", on |-> NullPtr]
    /\ steps = 0
    /\ meshes = [o \in MeshObjs |-> NewMesh(o)]
    /\ renderer = NewRenderer
    /\ gl = NewGL
    /\ flushLog = <<>>
    /\ queue = NewQueue
    /\ fb = NewFramebuffer(FbWidth, FbHeight)
    /\ drawn = <<>>
    /\ codec = NoNormal
    /\ destroyed = {}

\* a call on the chain; lastOp keeps the caches the call recomputed and the
\* call made before it
ChainStep(op, n, ns, trace) ==
    /\ steps < MaxChainOps
    /\ steps' = steps + 1
    /\ nodes' = ns
    /\ lastOp' = [op |-> op, n |-> n, trace |-> trace, prev |-> lastOp.op, on |-> lastOp.n]
    /\ UNCHANGED <<renderVars, queue, fb, drawn, codec, destroyed>>

ChainSetLocalPosition ==
    \E n \in Nodes, v \in PosVals :
        ChainStep("setLocalPosition", n, setLocalPosition(nodes, n, v), <<>>)

ChainGetWorldPosition ==
    \E n \in Nodes :
        ChainStep("getWorldPosition", n, updateWorldCache(nodes, n),
                  RecomputeTrace(nodes, n))

NextChain == ChainSetLocalPosition \/ ChainGetWorldPosition

SpecChain == InitChain /\ [][NextChain]_vars

\* number of occurrences of x in sequence s
CountIn(s, x) == Cardinality({i \in 1..Len(s) : s[i] = x})

\* C21: on a chain of nested transforms with clean caches, a getWorldPosition
\* recomputes the cache of each node at most once, also right after
\* setLocalPosition on the root, and a getWorldPosition that follows a
\* getWorldPosition on the same node recomputes no cache.
C21_RecomputeAtMostOnce ==
    lastOp.op = "getWorldPosition" =>
        /\ \A m \in Nodes : CountIn(lastOp.trace, m) <= 1
        /\ (lastOp.prev = "getWorldPosition" /\ lastOp.on = lastOp.n)
              => lastOp.trace = <<>>

\* the root was moved and the deepest node read, all caches having been clean
C21_Witness ==
    /\ steps = 2
    /\ lastOp.op = "getWorldPosition" /\ lastOp.n = NNodes
    /\ lastOp.prev = "setLocalPosition" /\ lastOp.on = 1
    /\ \A m \in Nodes : CountIn(lastOp.trace, m) <= 1

\* ------------------------------------------------------------------------
\* The hierarchy under setParent with any new parent
\* ------------------------------------------------------------------------
\* updateWorldCache on n returns: the call goes up the parent links as long
\* as it finds worldCacheDirty set, and a node's flag is cleared only after
\* the calls on its parent have returned (line 87), so that the call does not
\* return when it comes back to a node it is still working on
RECURSIVE UpdateReturns(_, _, _)
UpdateReturns(ns, n, active) ==
    IF ~ns[n].worldCacheDirty THEN TRUE
    ELSE IF ns[n].parentTransform = NullPtr THEN TRUE
    ELSE IF ns[n].parentTransform \in active \cup {n} THEN FALSE
    ELSE UpdateReturns(ns, ns[n].parentTransform, active \cup {n})

\* a call on a node with argument arg; a call that does not return leaves
\* lastOp.returned FALSE and the nodes as they were when it was made
CycleStep(op, n, arg, ns, returned) ==
    /\ steps < MaxOps
    /\ steps' = steps + 1
    /\ nodes' = ns
    /\ lastOp' = [op |-> op, n |-> n, arg |-> arg, returned |-> returned]
    /\ UNCHANGED <<renderVars, queue, fb, drawn, codec, destroyed>>

SetParentAny ==
    \E n \in Nodes, p \in Nodes \cup {NullPtr} :
        CycleStep("setParent", n, p, setParent(nodes, n, p), TRUE)

SetLocalPositionAny ==
    \E n \in Nodes :
        CycleStep("setLocalPosition", n, <<1, 2, 3>>,
                  setLocalPosition(nodes, n, <<1, 2, 3>>), TRUE)

GetWorldAny ==
    \E n \in Nodes :
        IF UpdateReturns(nodes, n, {})
        THEN CycleStep("getWorld", n, NullPtr, updateWorldCache(nodes, n), TRUE)
        ELSE CycleStep("getWorld", n, NullPtr, nodes, FALSE)

\* setWorldPosition and setWorldRotation call the getter of the parent
ParentGetterReturns(ns, n) ==
    ns[n].parentTransform = NullPtr \/ UpdateReturns(ns, ns[n].parentTransform, {})

SetWorldPositionAny ==
    \E n \in Nodes, v \in PosVals :
        IF ParentGetterReturns(nodes, n)
        THEN CycleStep("setWorldPosition", n, v, setWorldPosition(nodes, n, v), TRUE)
        ELSE CycleStep("setWorldPosition", n, v, nodes, FALSE)

SetWorldRotationAny ==
    \E n \in Nodes, v \in RotVals :
        IF ParentGetterReturns(nodes, n)
        THEN CycleStep("setWorldRotation", n, v, setWorldRotation(nodes, n, v), TRUE)
        ELSE CycleStep("setWorldRotation", n, v, nodes, FALSE)

NextCycle ==
    \/ SetParentAny
    \/ SetLocalPositionAny
    \/ GetWorldAny
    \/ SetWorldPositionAny
    \/ SetWorldRotationAny

SpecCycle == Init /\ [][NextCycle]_vars

\* C22: in every state reached through setParent and setLocal* calls the
\* getWorld* getters return on every node (markDirty, run by each of these
\* calls, has returned), with no unbounded recursion through the parent links.
C22_GettersReturn ==
    \A n \in Nodes : UpdateReturns(nodes, n, {})

\* ------------------------------------------------------------------------
\* Mesh objects and their ids.  Here meshes holds the static counter
\* Mesh::nextMeshID and the Mesh objects that exist, in order of creation
\* ------------------------------------------------------------------------
\* number of Mesh objects existing at a time, and value nextMeshID reaches
MaxMeshObjects == 3
MaxMeshIDs == 4

InitMesh ==
    /\ nodes = [n \in Nodes |-> NewTransform]
    /\ lastOp = [op |-> "none", n |-> NullPtr]
    /\ steps = 0
    /\ meshes = [nextMeshID |-> 0, objects |-> <<>>]
    /\ renderer = NewRenderer
    /\ gl = NewGL
    /\ flushLog = <<>>
    /\ queue = NewQueue
    /\ fb = NewFramebuffer(FbWidth, FbHeight)
    /\ drawn = <<>>
    /\ codec = NoNormal
    /\ destroyed = {}

MeshStep(op, n, m) ==
    /\ lastOp' = [op |-> op, n |-> n]
    /\ meshes' = m
    /\ UNCHANGED <<nodes, steps, renderer, gl, flushLog, queue, fb, drawn, codec, destroyed>>

\* Mesh::Mesh(BufferUsage): meshID(++nextMeshID)
MeshCreate ==
    /\ Len(meshes.objects) < MaxMeshObjects
    /\ meshes.nextMeshID < MaxMeshIDs
    /\ MeshStep("Mesh", Len(meshes.objects) + 1,
                [nextMeshID |-> meshes.nextMeshID + 1,
                 objects |-> Append(meshes.objects, NewMesh(meshes.nextMeshID + 1))])

\* the copy constructor the compiler generates for Mesh: every member is
\* copied, meshID included, and nextMeshID is not touched
MeshCopy ==
    \E i \in 1..Len(meshes.objects) :
        /\ Len(meshes.objects) < MaxMeshObjects
        /\ MeshStep("MeshCopy", Len(meshes.objects) + 1,
                    [meshes EXCEPT !.objects = Append(@, meshes.objects[i])])

\* the copy assignment the compiler generates for Mesh: a = b
MeshAssign ==
    \E a, b \in 1..Len(meshes.objects) :
        /\ a # b
        /\ MeshStep("MeshAssign", a, [meshes EXCEPT !.objects[a] = meshes.objects[b]])

\* a Mesh is destroyed
MeshDestroy ==
    \E i \in 1..Len(meshes.objects) :
        MeshStep("MeshDestroy", i,
                 [meshes EXCEPT !.objects =
                     SubSeq(@, 1, i - 1) \o SubSeq(@, i + 1, Len(@))])

NextMesh == MeshCreate \/ MeshCopy \/ MeshAssign \/ MeshDestroy

SpecMesh == InitMesh /\ [][NextMesh]_vars

\* C23: of the Mesh objects that exist, each one created later has a strictly
\* greater id than each one created before it, so that no two carry the same
\* id.
C23_MeshIdsIncrease ==
    \A i, j \in 1..Len(meshes.objects) :
        i < j => meshes.objects[i].meshID < meshes.objects[j].meshID

\* twice the screen-space area of tri is below 1 in magnitude (Orient is in
\* doubled coordinates, so four times that value)
NearZeroArea(tri) == Abs(Orient(tri.v[1], tri.v[2], tri.v[3])) < 4

\* C24: drawing in solid mode a triangle whose screen-space area is near zero
\* (barycentric denominator below 1 in magnitude) leaves the colour buffer and
\* the depth buffer as they were, and the call returns.
C24_DegenerateTriangleNoOp ==
    [][(lastOp'.op = "drawFilledTriangle" /\ Len(drawn') = Len(drawn) + 1
          /\ NearZeroArea(Triangles[lastOp'.n]))
        => fb' = fb]_vars

\* a triangle of near-zero area was drawn over a pixel centre that it
\* contains, and the pixel still holds the far depth
C24_Witness ==
    /\ lastOp.op = "drawFilledTriangle"
    /\ NearZeroArea(LastTriangle)
    /\ \E p \in Pixels :
          /\ CentreInTriangle(LastTriangle, p[1], p[2])
          /\ Framebuffer_getDepth(fb, p[1], p[2]) = FarDepth

\* C25: right after setWorldPosition(p) on a node, with or without a parent
\* and whatever calls came before, getWorldPosition() on it returns p; right
\* after setWorldRotation(r), getWorldRotation() returns r.
C25_SetWorldThenGet ==
    /\ lastOp.op = "setWorldPosition" =>
          /\ lastOp.returned
          /\ UpdateReturns(nodes, lastOp.n, {})
          /\ getWorldPosition(nodes, lastOp.n) = lastOp.arg
    /\ lastOp.op = "setWorldRotation" =>
          /\ lastOp.returned
          /\ UpdateReturns(nodes, lastOp.n, {})
          /\ getWorldRotation(nodes, lastOp.n) = lastOp.arg

\* C26: every command that submit() has queued carries, as the depth bits of
\* its sort key, the bit pattern of the z translation of its model matrix
\* (element [2][3], where mat4::translation stores t.z, and so t.z for a model
\* matrix translation(t) * euler(r) * scale(s)).
C26_DepthIsWorldZ ==
    \A i \in 1..Len(renderer.renderQueue.commands) :
        KeyField(renderer.renderQueue.commands[i].sortKey, 0, 31) =
            FloatBits(renderer.renderQueue.commands[i].modelMatrix[3][4])

\* ------------------------------------------------------------------------
\* Parent and child links under setParent with any live new parent, the node
\* itself and its descendants included, and under destruction
\* ------------------------------------------------------------------------
SetParentLiveAny ==
    \E n \in LiveNodes, p \in LiveNodes \cup {NullPtr} :
        LiveStep([op |-> "setParent", n |-> n], setParent(nodes, n, p), destroyed)

NextLinks == SetParentLiveAny \/ Destroy

SpecLinks == Init /\ [][NextLinks]_vars

\* C27: among the live nodes, c has parent p exactly when c occurs in the
\* child list of p; it occurs there once, and so in the child list of no other
\* node; the parent of a live node is a live node or none.
C27_LinksConsistent ==
    /\ \A c \in LiveNodes : nodes[c].parentTransform \in LiveNodes \cup {NullPtr}
    /\ \A c, p \in LiveNodes :
          /\ nodes[c].parentTransform = p <=> c \in SeqRange(nodes[p].children)
          /\ CountIn(nodes[p].children, c) <= 1
          /\ SeqRange(nodes[p].children) \subseteq LiveNodes

\* a node has been destroyed and, after it, a live node given a live parent
C27_Witness ==
    /\ destroyed # {}
    /\ lastOp.op = "setParent"
    /\ nodes[lastOp.n].parentTransform \in LiveNodes
    /\ lastOp.n \in SeqRange(nodes[nodes[lastOp.n].parentTransform].children)

\* ------------------------------------------------------------------------
\* DrawCommandQueue: order and content under any interleaving
\* ------------------------------------------------------------------------
\* the multiset of the commands of a sequence
CommandBag(cmds) == [c \in SeqRange(cmds) |-> CountIn(cmds, c)]

\* what a step of the queue does to the multiset of its commands: submit adds
\* one command, clear empties it, sort and getCommands keep it, and what
\* getCommands returns is in non-decreasing sortKey order
C28_QueueStep ==
    /\ lastOp'.op = "submit" =>
          /\ Len(queue'.commands) = Len(queue.commands) + 1
          /\ CommandBag(queue'.commands)
                = CommandBag(Append(queue.commands,
                                    queue'.commands[Len(queue'.commands)]))
    /\ lastOp'.op = "clear" => queue'.commands = <<>>
    /\ lastOp'.op \in {"sort", "getCommands"} =>
          CommandBag(queue'.commands) = CommandBag(queue.commands)
    /\ lastOp'.op = "getCommands" => SortedByKey(queue'.commands)

\* C28: whenever needsSort is false the commands are in non-decreasing sortKey
\* order, and the commands getCommands returns are the multiset of the
\* commands submitted since the last clear, in non-decreasing sortKey order.
C28_SortedAndComplete ==
    /\ [](~queue.needsSort => SortedByKey(queue.commands))
    /\ [][C28_QueueStep]_vars

\* getCommands has returned three commands of which two are the same command
\* and the third has a greater key
C28_Witness ==
    /\ lastOp.op = "getCommands"
    /\ Len(queue.commands) = 3
    /\ Cardinality(SeqRange(queue.commands)) = 2
    /\ U64Less(queue.commands[1].sortKey, queue.commands[3].sortKey)

\* ------------------------------------------------------------------------
\* Usage hint of cached meshes
\* ------------------------------------------------------------------------
\* mesh.setUsage(u) by the owner of the mesh
SetUsage ==
    \E o \in MeshObjs, u \in BufferUsage :
        /\ steps < MaxRenderOps
        /\ steps' = steps + 1
        /\ lastOp' = [op |-> "setUsage", n |-> NullPtr]
        /\ meshes' = Mesh_setUsage(meshes, o, u)
        /\ UNCHANGED <<renderer, gl, flushLog, queue, nodes, fb, drawn, codec, destroyed>>

NextUsage ==
    \/ Initialize
    \/ Submit
    \/ Flush
    \/ DrawMesh
    \/ SetUsage

SpecUsage == Init /\ [][NextUsage]_vars

\* C29: after a flush, the usage recorded in the cached MeshBuffer of every
\* mesh the flush went through, and the usage its two buffer stores were
\* last filled with, is the usage hint of the mesh.
C29_BufferUsageFollowsMesh ==
    lastOp.op \in {"flush", "drawMesh"} =>
        \A i \in 1..Len(flushLog) :
            flushLog[i].cmd.mesh # NullPtr =>
                /\ flushLog[i].after.usage = flushLog[i].meshAfter.usage
                /\ gl.buffers[flushLog[i].after.VBO].usage = flushLog[i].meshAfter.usage
                /\ gl.buffers[flushLog[i].after.EBO].usage = flushLog[i].meshAfter.usage

\* ------------------------------------------------------------------------
\* Rasterizer::drawLine
\* ------------------------------------------------------------------------
\* the range of int
IntMax == 2147483647
IntMin == -IntMax - 1

\* int arithmetic: v is the value a two's complement addition, subtraction
\* or negation leaves, ov tells that the exact result is no int (signed
\* overflow, which is undefined behaviour)
Int_add(a, b) ==
    IF b > 0 /\ a > IntMax - b
    THEN [v |-> (a - IntMax - 1) + (b - IntMax - 1), ov |-> TRUE]
    ELSE IF b < 0 /\ a < IntMin - b
    THEN [v |-> (a + IntMax + 1) + (b + IntMax + 1), ov |-> TRUE]
    ELSE [v |-> a + b, ov |-> FALSE]

Int_sub(a, b) ==
    IF b < 0 /\ a > IntMax + b
    THEN [v |-> (a - IntMax - 1) - (b + IntMax + 1), ov |-> TRUE]
    ELSE IF b > 0 /\ a < IntMin + b
    THEN [v |-> (a + IntMax + 1) - (b - IntMax - 1), ov |-> TRUE]
    ELSE [v |-> a - b, ov |-> FALSE]

Int_neg(a) ==
    IF a = IntMin THEN [v |-> IntMin, ov |-> TRUE] ELSE [v |-> -a, ov |-> FALSE]

\* std::abs(int)
Int_abs(a) == IF a < 0 THEN Int_neg(a) ELSE [v |-> a, ov |-> FALSE]

\* the outcomes of a signed overflow that are modelled: the value wraps
\* around, or the operation traps and the call never returns
OverflowModes == {"wrap", "trap"}

\* the iterations of the loop of drawLine a step of the model follows
MaxLineSteps == 8
\* the drawLine calls of a behaviour
MaxLineOps == 2

\* the body of the loop of drawLine after the break test (lines 174-184)
LineAdvance(x, y, err, dx, dy, sx, sy) ==
    LET e2 == Int_add(err, err)
        negDy == Int_neg(dy)
        stepX == e2.v > negDy.v
        stepY == e2.v < dx
        errX == IF stepX THEN Int_sub(err, dy) ELSE [v |-> err, ov |-> FALSE]
        newX == IF stepX THEN Int_add(x, sx) ELSE [v |-> x, ov |-> FALSE]
        errY == IF stepY THEN Int_add(errX.v, dx) ELSE [v |-> errX.v, ov |-> FALSE]
        newY == IF stepY THEN Int_add(y, sy) ELSE [v |-> y, ov |-> FALSE]
    IN  [ x |-> newX.v, y |-> newY.v, err |-> errY.v,
          ov |-> e2.ov \/ negDy.ov \/ errX.ov \/ newX.ov \/ errY.ov \/ newY.ov ]

\* the loop of drawLine (lines 168-185) from its k-th iteration on.  Result:
\* the framebuffer, the coordinates passed to setPixel, and status:
\* "returned" (the break was taken), "aborted" (an overflow trapped) or
\* "running" (the loop is in an iteration after the MaxLineSteps-th)
RECURSIVE LineLoop(_, _, _, _, _, _, _, _, _, _, _, _, _)
LineLoop(f, calls, x, y, err, x1, y1, dx, dy, sx, sy, mode, k) ==
    IF x = x1 /\ y = y1
    THEN [ f |-> Framebuffer_setPixel(f, x, y, "white"),
           calls |-> Append(calls, <<x, y>>), status |-> "returned" ]
    ELSE IF k >= MaxLineSteps
    THEN [ f |-> Framebuffer_setPixel(f, x, y, "white"),
           calls |-> Append(calls, <<x, y>>), status |-> "running" ]
    ELSE CHOOSE r \in
            { IF a.ov /\ mode = "trap"
              THEN [ f |-> Framebuffer_setPixel(f, x, y, "white"),
                     calls |-> Append(calls, <<x, y>>), status |-> "aborted" ]
              ELSE LineLoop(Framebuffer_setPixel(f, x, y, "white"),
                            Append(calls, <<x, y>>), a.x, a.y, a.err,
                            x1, y1, dx, dy, sx, sy, mode, k + 1)
              : a \in {LineAdvance(x, y, err, dx, dy, sx, sy)} } : TRUE

\* drawLine from the values of dx and dy on (lines 164-185)
LineFrom(f, x0, y0, x1, y1, dx, dy, mode) ==
    LET err == Int_sub(dx.v, dy.v)
    IN  IF (dx.ov \/ dy.ov \/ err.ov) /\ mode = "trap"
        THEN [f |-> f, calls |-> <<>>, status |-> "aborted"]
        ELSE LineLoop(f, <<>>, x0, y0, err.v, x1, y1, dx.v, dy.v,
                      IF x0 < x1 THEN 1 ELSE -1, IF y0 < y1 THEN 1 ELSE -1,
                      mode, 1)

\* drawLine(fb, x0, y0, x1, y1, wireframeColor); mode is what a signed
\* overflow does
drawLine(f, x0, y0, x1, y1, mode) ==
    LET subX == Int_sub(x1, x0)
        subY == Int_sub(y1, y0)
        absX == Int_abs(subX.v)
        absY == Int_abs(subY.v)
    IN  LineFrom(f, x0, y0, x1, y1,
                 [v |-> absX.v, ov |-> subX.ov \/ absX.ov],
                 [v |-> absY.v, ov |-> subY.ov \/ absY.ov], mode)

\* the coordinates drawLine is called with: inside the framebuffer, just
\* outside of it, and the largest int
LineCoords == {-1, 0, 2, IntMax}

LineStep(op, f) ==
    /\ lastOp' = op
    /\ fb' = f
    /\ UNCHANGED <<nodes, meshes, renderer, gl, flushLog, queue, drawn, codec, destroyed>>

ClearLines ==
    /\ LineStep([op |-> "clear", n |-> NullPtr], Framebuffer_clear(fb))
    /\ UNCHANGED steps

DrawLine ==
    \E x0 \in LineCoords, y0 \in LineCoords, x1 \in LineCoords, y1 \in LineCoords,
       mode \in OverflowModes :
        /\ steps < MaxLineOps
        /\ steps' = steps + 1
        /\ \E r \in {drawLine(fb, x0, y0, x1, y1, mode)} :
              LineStep([ op |-> "drawLine", n |-> NullPtr,
                         from |-> <<x0, y0>>, to |-> <<x1, y1>>,
                         calls |-> r.calls, status |-> r.status ], r.f)

NextLine == ClearLines \/ DrawLine

SpecLine == Init /\ [][NextLine]_vars

\* (x, y) lies in the bounding rectangle of the points a and b
InRectangle(c, a, b) ==
    /\ Min2(a[1], b[1]) <= c[1] /\ c[1] <= Max2(a[1], b[1])
    /\ Min2(a[2], b[2]) <= c[2] /\ c[2] <= Max2(a[2], b[2])

\* C30: a drawLine call is not cut short, a call that returned has passed
\* both endpoints to setPixel, and every pixel of the framebuffer a call has
\* set lies in the bounding rectangle of the two endpoints.
C30_LineInRectangle ==
    lastOp.op = "drawLine" =>
        /\ lastOp.status # "aborted"
        /\ lastOp.status = "returned" =>
              {lastOp.from, lastOp.to} \subseteq SeqRange(lastOp.calls)
        /\ \A c \in SeqRange(lastOp.calls) :
              Framebuffer_inside(fb, c[1], c[2]) =>
                  InRectangle(c, lastOp.from, lastOp.to)

====
